---- MODULE Spec2Model ----
(***************************************************************************)
(* CES scoring-and-filtering pipeline of content_analysis/ces_model.py.    *)
(*                                                                         *)
(* Python values are tagged records [t |-> kind, ...]:                     *)
(*   absent   the key is not in the dict                                   *)
(*   none     None                                                         *)
(*   int      v: the integer (bool is an int)                              *)
(*   float    m, e: the finite binary float m * 2^-e (m odd or e = 0)      *)
(*   finf     float infinity;  fnan   float NaN                            *)
(*   str      v: the sequence of its characters                            *)
(*   obj      v: another object (list, dict), given by the characters of   *)
(*            its str(); f: whether it is falsy (empty)                    *)
(*   signals  the dict stored under "signals"                              *)
(*   exc      v: the name of the exception an evaluation ended in          *)
(* A character is a one-letter string; "wan" and "yi" stand for the two    *)
(* magnitude suffixes U+4E07 and U+4EBF.                                   *)
(***************************************************************************)
EXTENDS Integers, Sequences, FiniteSets, TLC

Absent == [t |-> "absent"]

None == [t |-> "none"]

PyInt(n) == [t |-> "int", v |-> n]

PyStr(s) == [t |-> "str", v |-> s]

PyObj(s, falsy) == [t |-> "obj", v |-> s, f |-> falsy]

FInf == [t |-> "finf"]

FNan == [t |-> "fnan"]

Exc(name) == [t |-> "exc", v |-> name]

IsExc(x) == x.t = "exc"

RECURSIVE Pow2(_)
Pow2(n) == IF n <= 0 THEN 1 ELSE 2 * Pow2(n - 1)

RECURSIVE Pow10(_)
Pow10(n) == IF n <= 0 THEN 1 ELSE 10 * Pow10(n - 1)

(* A finite float m * 2^-e in lowest terms, so that equal floats are equal records. *)
RECURSIVE PyFloat(_, _)
PyFloat(m, e) ==
    IF m = 0 THEN [t |-> "float", m |-> 0, e |-> 0]
    ELSE IF e > 0 /\ m % 2 = 0 THEN PyFloat(m \div 2, e - 1)
    ELSE [t |-> "float", m |-> m, e |-> e]

(* Largest difference of exponents for which the scaled mantissa is computed. *)
ExpSpan == 24

(* x >= y on finite floats, comparing the mantissas at the common exponent. *)
FloatGe(x, y) ==
    IF x.e >= y.e
    THEN (IF x.e - y.e > ExpSpan THEN (y.m <= 0 /\ (y.m < 0 \/ x.m >= 0))
          ELSE x.m >= y.m * Pow2(x.e - y.e))
    ELSE (IF y.e - x.e > ExpSpan THEN (x.m >= 0 /\ (x.m > 0 \/ y.m <= 0))
          ELSE x.m * Pow2(y.e - x.e) >= y.m)

FloatGt(x, y) == ~FloatGe(y, x)

(* float * float, exact for the finite floats of this model. *)
FloatMul(x, y) == PyFloat(x.m * y.m, x.e + y.e)

(* int(x) of a finite float: truncation toward zero. *)
TruncDiv(a, b) == IF a >= 0 THEN a \div b ELSE -((-a) \div b)

FloatToInt(x) == TruncDiv(x.m, Pow2(x.e))

(* ---------------- strings ---------------- *)

Lower(c) ==
    CASE c = "A" -> "a" [] c = "B" -> "b" [] c = "D" -> "d" [] c = "E" -> "e"
      [] c = "F" -> "f" [] c = "I" -> "i" [] c = "M" -> "m" [] c = "N" -> "n"
      [] c = "O" -> "o" [] c = "P" -> "p" [] c = "S" -> "s" [] c = "V" -> "v"
      [] OTHER -> c

(* str.lower() *)
StrLower(s) == [i \in 1..Len(s) |-> Lower(s[i])]

Digits == <<"0", "1", "2", "3", "4", "5", "6", "7", "8", "9">>

IsDigit(c) == \E i \in 1..10 : Digits[i] = c

DigitVal(c) == (CHOOSE i \in 1..10 : Digits[i] = c) - 1

RECURSIVE NatToStr(_)
NatToStr(n) ==
    IF n < 10 THEN <<Digits[n + 1]>>
    ELSE NatToStr(n \div 10) \o <<Digits[(n % 10) + 1]>>

IntToStr(n) == IF n < 0 THEN <<"-">> \o NatToStr(-n) ELSE NatToStr(n)

(* The decimal digits of num / 2^e, 0 <= num < 2^e, which terminate after e digits. *)
RECURSIVE FracDigits(_, _)
FracDigits(num, e) ==
    IF num = 0 \/ e <= 0 THEN <<>>
    ELSE <<Digits[((num * 10) \div Pow2(e)) + 1]>>
         \o FracDigits(((num * 10) % Pow2(e)) \div 2, e - 1)

(* repr() of a finite float with a short binary fraction: "3.0", "-3.5", "0.25". *)
FloatToStr(x) ==
    LET a == IF x.m < 0 THEN -x.m ELSE x.m
        ip == a \div Pow2(x.e)
        fp == a % Pow2(x.e)
        fd == FracDigits(fp, x.e)
    IN  (IF x.m < 0 THEN <<"-">> ELSE <<>>) \o NatToStr(ip) \o <<".">>
        \o (IF fd = <<>> THEN <<"0">> ELSE fd)

(* str(x) *)
StrOf(x) ==
    CASE x.t = "str" -> x.v
      [] x.t = "none" -> <<"N", "o", "n", "e">>
      [] x.t = "int" -> IntToStr(x.v)
      [] x.t = "float" -> FloatToStr(x)
      [] x.t = "finf" -> <<"i", "n", "f">>
      [] x.t = "fnan" -> <<"n", "a", "n">>
      [] x.t = "obj" -> x.v
      [] OTHER -> <<>>

(* bool(x) *)
Truthy(x) ==
    CASE x.t = "none" -> FALSE
      [] x.t = "int" -> x.v # 0
      [] x.t = "float" -> x.m # 0
      [] x.t = "str" -> x.v # <<>>
      [] x.t = "obj" -> ~x.f
      [] OTHER -> TRUE

IsSpace(c) == c = " "

RECURSIVE LStrip(_)
LStrip(s) == IF s # <<>> /\ IsSpace(Head(s)) THEN LStrip(Tail(s)) ELSE s

RECURSIVE RStrip(_)
RStrip(s) ==
    IF s # <<>> /\ IsSpace(s[Len(s)]) THEN RStrip(SubSeq(s, 1, Len(s) - 1)) ELSE s

(* str.strip() *)
Strip(s) == LStrip(RStrip(s))

(* str.replace(c, "") *)
Remove(s, c) == SelectSeq(s, LAMBDA d : d # c)

(* a in b, for strings *)
IsSubstring(a, b) ==
    \E i \in 0..(Len(b) - Len(a)) : SubSeq(b, i + 1, i + Len(a)) = a

RECURSIVE DigitsVal(_)
DigitsVal(s) ==
    IF s = <<>> THEN 0 ELSE 10 * DigitsVal(SubSeq(s, 1, Len(s) - 1)) + DigitVal(s[Len(s)])

AllDigits(s) == \A i \in 1..Len(s) : IsDigit(s[i])

(* ---------------- float(str) ---------------- *)

(* The characters of s after an optional sign, and whether the sign is "-". *)
Unsigned(s) == IF s # <<>> /\ Head(s) \in {"+", "-"} THEN Tail(s) ELSE s

IsNegative(s) == s # <<>> /\ Head(s) = "-"

DotAt(s) == IF \E i \in 1..Len(s) : s[i] = "." THEN CHOOSE i \in 1..Len(s) : s[i] = "." ELSE 0

(* The value of the decimal ip.fp with the given sign, as the exact ratio num / den. *)
DecimalOf(ip, fp, sign) ==
    IF AllDigits(ip) /\ AllDigits(fp) /\ Len(ip) + Len(fp) > 0
    THEN [t |-> "ratio", num |-> sign * (DigitsVal(ip) * Pow10(Len(fp)) + DigitsVal(fp)),
          den |-> Pow10(Len(fp))]
    ELSE Exc("ValueError")

SplitAtDot(u, d, sign) ==
    IF d = 0 THEN DecimalOf(u, <<>>, sign)
    ELSE DecimalOf(SubSeq(u, 1, d - 1), SubSeq(u, d + 1, Len(u)), sign)

FloatOfUnsigned(u, sign) ==
    IF u \in {<<"i", "n", "f">>, <<"i", "n", "f", "i", "n", "i", "t", "y">>} THEN FInf
    ELSE IF u = <<"n", "a", "n">> THEN FNan
    ELSE SplitAtDot(u, DotAt(u), sign)

FloatOfStripped(s) ==
    FloatOfUnsigned(StrLower(Unsigned(s)), IF IsNegative(s) THEN -1 ELSE 1)

(* float(s) for the decimal notations sign, digits, ".", and the words inf,  *)
(* infinity and nan in any case; exponents and digit separators are not part *)
(* of the strings of this model. The result is the exact value num / den, or *)
(* finf, fnan, or the ValueError of an unparsable string.                    *)
ParseFloat(str) == FloatOfStripped(Strip(str))

IntOfStripped(s, u) ==
    IF u # <<>> /\ AllDigits(u)
    THEN PyInt((IF IsNegative(s) THEN -1 ELSE 1) * DigitsVal(u))
    ELSE Exc("ValueError")

IntOfUnsigned(s) == IntOfStripped(s, Unsigned(s))

(* int(s) for a string: optional sign and digits, surrounding whitespace ignored. *)
ParseInt(str) == IntOfUnsigned(Strip(str))

(* int(x) *)
IntOf(x) ==
    CASE x.t = "int" -> x
      [] x.t = "float" -> PyInt(FloatToInt(x))
      [] x.t = "finf" -> Exc("OverflowError")
      [] x.t = "fnan" -> Exc("ValueError")
      [] x.t = "str" -> ParseInt(x.v)
      [] OTHER -> Exc("TypeError")

(* ---------------- binary64 ---------------- *)

(* Number of binary digits a binary64 float keeps. *)
MantissaBits == 53

(* Largest number of binary digits of a natural the model computes with. *)
WordBits == 30

(* Number of binary digits of the natural n, 0 for 0. *)
Width(n) == CHOOSE w \in 0..WordBits : n < Pow2(w) /\ (w = 0 \/ n >= Pow2(w - 1))

Digit(n, w, i) == (n \div Pow2(w - i)) % 2

(* The w last binary digits of n, the most significant first. *)
BitsOfWidth(n, w) == [i \in 1..w |-> Digit(n, w, i)]

(* The binary digits of n, the most significant first; <<>> for 0. *)
BitsOfNat(n) == BitsOfWidth(n, Width(n))

(* The natural of the binary digits b, by halves. *)
RECURSIVE NatOfBits(_)
NatOfBits(b) ==
    IF b = <<>> THEN 0
    ELSE IF Len(b) = 1 THEN b[1]
    ELSE NatOfBits(SubSeq(b, 1, Len(b) \div 2)) * Pow2(Len(b) - Len(b) \div 2)
         + NatOfBits(SubSeq(b, Len(b) \div 2 + 1, Len(b)))

Square(x) == x * x

(* 2^k modulo d *)
RECURSIVE ModPow2(_, _)
ModPow2(k, d) ==
    IF k = 0 THEN 1 % d
    ELSE IF k % 2 = 0 THEN Square(ModPow2(k \div 2, d)) % d
    ELSE (2 * ModPow2(k - 1, d)) % d

(* What is left of r / d behind its first k binary digits, 0 <= r < d. *)
FracRem(r, d, k) == (r * ModPow2(k, d)) % d

(* The first k binary digits of r / d behind the point, 0 <= r < d; none for r = 0. *)
FracBits(r, d, k) ==
    IF r = 0 THEN <<>> ELSE [i \in 1..k |-> (2 * FracRem(r, d, i - 1)) \div d]

(* Number of zeros between the point and the first one of r / d, 0 < r < d. *)
RECURSIVE LeadingZeros(_, _)
LeadingZeros(r, d) == IF 2 * r >= d THEN 0 ELSE 1 + LeadingZeros(2 * r, d)

LastZero(b) == CHOOSE j \in 1..Len(b) : b[j] = 0 /\ \A i \in (j + 1)..Len(b) : b[i] = 1

AddAt(b, j) == [i \in 1..Len(b) |-> IF i < j THEN b[i] ELSE IF i = j THEN 1 ELSE 0]

(* The digits b plus one at the last place. *)
Increment(b) ==
    IF \A i \in 1..Len(b) : b[i] = 1 THEN <<1>> \o [i \in 1..Len(b) |-> 0]
    ELSE AddAt(b, LastZero(b))

(* A binary64 value >= 0: the digits from the first one on, at most          *)
(* MantissaBits of them, point of which stand before the binary point.       *)
Binary(bits, point) == [bits |-> bits, point |-> point]

(* Round half to even: the digit behind the last kept one is 1 and either a  *)
(* later digit is 1 or the last kept digit is 1.                             *)
RoundsUp(digits, sticky) ==
    /\ digits[MantissaBits + 1] = 1
    /\ \/ sticky
       \/ digits[MantissaBits] = 1
       \/ \E i \in (MantissaBits + 2)..Len(digits) : digits[i] = 1

Carried(m, point) ==
    IF Len(m) > MantissaBits THEN Binary(SubSeq(m, 1, MantissaBits), point + 1)
    ELSE Binary(m, point)

(* The binary64 value nearest to the digits; sticky: a one follows them. *)
Rounded(digits, point, sticky) ==
    IF Len(digits) <= MantissaBits THEN Binary(digits, point)
    ELSE IF RoundsUp(digits, sticky)
    THEN Carried(Increment(SubSeq(digits, 1, MantissaBits)), point)
    ELSE Binary(SubSeq(digits, 1, MantissaBits), point)

AboveOne(whole, r, d) ==
    Rounded(whole \o FracBits(r, d, MantissaBits + 1 - Len(whole)), Len(whole),
            FracRem(r, d, MantissaBits + 1 - Len(whole)) # 0)

BelowOne(r, d, z) ==
    Rounded(SubSeq(FracBits(r, d, z + MantissaBits + 1), z + 1, z + MantissaBits + 1), -z,
            FracRem(r, d, z + MantissaBits + 1) # 0)

(* The binary64 value nearest to a / d, a >= 0 and d > 0: what float() gives *)
(* for a decimal string of that value.                                       *)
Binary64(a, d) ==
    IF a = 0 THEN Binary(<<>>, 0)
    ELSE IF a >= d THEN AboveOne(BitsOfNat(a \div d), a % d, d)
    ELSE BelowOne(a, d, LeadingZeros(a, d))

(* Binary digits of one limb of a long natural. *)
LimbBits == 15

(* The limbs of the digits b, the most significant first. *)
LimbOf(b, pad, c) ==
    NatOfBits([i \in 1..LimbBits |->
                  IF (c - 1) * LimbBits + i <= pad THEN 0
                  ELSE b[(c - 1) * LimbBits + i - pad]])

LimbsOfCount(b, n) == [c \in 1..n |-> LimbOf(b, n * LimbBits - Len(b), c)]

LimbsOfBits(b) == LimbsOfCount(b, (Len(b) + LimbBits - 1) \div LimbBits)

(* The limbs of c * m + carry, for a natural m of at most one limb. *)
RECURSIVE TimesLimbs(_, _, _)
TimesLimbs(c, m, carry) ==
    IF c = <<>> THEN (IF carry = 0 THEN <<>> ELSE <<carry>>)
    ELSE TimesLimbs(SubSeq(c, 1, Len(c) - 1), m, (c[Len(c)] * m + carry) \div Pow2(LimbBits))
         \o <<(c[Len(c)] * m + carry) % Pow2(LimbBits)>>

(* c * m for a natural m that is below one limb or a multiple of base with such a rest. *)
RECURSIVE TimesLong(_, _, _)
TimesLong(c, m, base) ==
    IF m < Pow2(LimbBits) THEN TimesLimbs(c, m, 0)
    ELSE TimesLong(TimesLimbs(c, base, 0), m \div base, base)

BitsOfLimbs(c) ==
    [p \in 1..(LimbBits * Len(c)) |->
        Digit(c[((p - 1) \div LimbBits) + 1], LimbBits, ((p - 1) % LimbBits) + 1)]

FirstOne(b) == CHOOSE j \in 1..Len(b) : b[j] = 1 /\ \A i \in 1..(j - 1) : b[i] = 0

StripZeros(b) == IF \A i \in 1..Len(b) : b[i] = 0 THEN <<>> ELSE SubSeq(b, FirstOne(b), Len(b))

(* The digits of b * m. *)
TimesNat(b, m, base) ==
    IF m = 1 THEN b ELSE StripZeros(BitsOfLimbs(TimesLong(LimbsOfBits(b), m, base)))

Product(x, digits) == Rounded(digits, x.point - Len(x.bits) + Len(digits), FALSE)

(* x * m in binary64, for a natural m as TimesLong takes it. *)
BinaryTimes(x, m, base) == Product(x, TimesNat(x.bits, m, base))

(* int(x) of a binary64 value x >= 0. *)
BinaryToInt(x) ==
    IF x.point <= 0 THEN 0
    ELSE IF x.point <= Len(x.bits) THEN NatOfBits(SubSeq(x.bits, 1, x.point))
    ELSE NatOfBits(x.bits) * Pow2(x.point - Len(x.bits))

(* ---------------- helpers of ces_model.py ---------------- *)

WanMult == 10000

YiMult == 100000000

EndsWith(s, c) == s # <<>> /\ s[Len(s)] = c

(* int(float(s) * mult) inside the try of _parse_count, f being float(s). *)
IntOfScaled(f, mult) ==
    IF f.t = "exc" THEN PyInt(0)
    ELSE IF f.t = "finf" THEN Exc("OverflowError")
    ELSE IF f.t = "fnan" THEN PyInt(0)
    ELSE PyInt((IF f.num < 0 THEN -1 ELSE 1)
               * BinaryToInt(BinaryTimes(Binary64(IF f.num < 0 THEN -f.num ELSE f.num, f.den),
                                         mult, WanMult)))

(* The string branch of _parse_count, s being stripped and without commas. *)
CountOfStr(s) ==
    IF s = <<>> THEN PyInt(0)
    ELSE IF EndsWith(s, "wan") THEN IntOfScaled(ParseFloat(SubSeq(s, 1, Len(s) - 1)), WanMult)
    ELSE IF EndsWith(s, "yi") THEN IntOfScaled(ParseFloat(SubSeq(s, 1, Len(s) - 1)), YiMult)
    ELSE IntOfScaled(ParseFloat(s), 1)

(* _parse_count: the count as an int, or the exception that escapes it. *)
_parse_count(x) ==
    IF x.t = "none" THEN PyInt(0)
    ELSE IF x.t \in {"int", "float", "finf", "fnan"} THEN IntOf(x)
    ELSE CountOfStr(Remove(Strip(StrOf(x)), ","))

MsPerHour == 3600000

(* _epoch_ms_to_hours_ago with time.time() * 1000 = now: None for an invalid   *)
(* value, else the age, kept as its whole milliseconds ms (the float returned  *)
(* is ms / 1000.0 / 3600.0).                                                   *)
Hours(ms) == [t |-> "hours", ms |-> ms]

(* The age without max(0, ...): the cases must differ. *)
HoursAgoUnclamped(ms, now) ==
    IF IsExc(ms) THEN None
    ELSE IF ms.v <= 0 THEN None
    ELSE Hours(now - ms.v)

HoursAgoOfInt(ms, now) ==
    IF IsExc(ms) THEN None
    ELSE IF ms.v <= 0 THEN None
    ELSE Hours(IF now - ms.v > 0 THEN now - ms.v ELSE 0)

_epoch_ms_to_hours_ago(ms_val, now) == HoursAgoOfInt(IntOf(ms_val), now)

(* Smallest power of two a binary64 float holds: 2^-1074. *)
MaxFloatExp == 1074

(* A power that stops at the smallest subnormal: the cases must differ. *)
PowHalfClamped(n) == PyFloat(1, IF n > MaxFloatExp THEN MaxFloatExp ELSE n)

(* math.pow(0.5, n) for a natural n: 2^-n, and 0.0 once n passes the smallest *)
(* subnormal.                                                                 *)
PowHalf(n) == IF n > MaxFloatExp THEN PyFloat(0, 0) ELSE PyFloat(1, n)

(* The half-life in milliseconds, a whole number for the half-lives of this model. *)
HalfLifeInMs(half_life_hours) == (MsPerHour * half_life_hours.m) \div Pow2(half_life_hours.e)

(* _time_decay_weight: 0.5 ^ (hours_ago / half_life_hours). The ages of this *)
(* model are whole multiples of the half-life, so the power is 2^-n exactly. *)

_time_decay_weight(hours_ago, half_life_hours) ==
    IF hours_ago.t = "none" THEN PyFloat(1, 0)
    ELSE IF half_life_hours.m <= 0 THEN PyFloat(1, 0)
    ELSE PowHalf(hours_ago.ms \div HalfLifeInMs(half_life_hours))

(* The search without lower(): the cases must agree. *)
TextContainsExact(text, keywords) ==
    \E i \in 1..Len(keywords) : IsSubstring(keywords[i], text)

(* _text_contains_any *)
_text_contains_any(text, keywords) ==
    \E i \in 1..Len(keywords) : IsSubstring(StrLower(keywords[i]), StrLower(text))

(* Python's a % b for b # 0: the result has the sign of b. *)
PyMod(a, b) == IF b > 0 THEN a % b ELSE -((-a) % (-b))

(* ---------------- records and configuration ---------------- *)

InputKeys ==
    {"note_id", "type", "title", "desc", "tag_list",
     "liked_count", "collected_count", "comment_count", "share_count", "follow_count",
     "last_update_time", "time", "last_modify_ts"}

DerivedKeys == {"signals", "ces", "time_weight", "weighted_ces", "rank"}

Keys == InputKeys \cup DerivedKeys

(* A dict: every key of Keys, with Absent for the keys it does not hold. *)
Dict(fields) == [k \in Keys |-> IF k \in DOMAIN fields THEN fields[k] ELSE Absent]

(* dict.get(key, default) *)
Get(d, key, default) == IF d[key].t = "absent" THEN default ELSE d[key]

PyList(seq) == [t |-> "list", v |-> seq]

PyBool(b) == [t |-> "bool", v |-> b]

Signals(like, collect, comment, share, follow) ==
    [t |-> "signals", like |-> like, collect |-> collect, comment |-> comment,
     share |-> share, follow |-> follow]

(* CESFilterConfig with the defaults of the dataclass. *)
CESFilterConfig ==
    [min_ces |-> PyFloat(0, 0),
     min_weighted_ces |-> PyFloat(0, 0),
     top_k |-> None,
     top_percent |-> None,
     enable_time_decay |-> TRUE,
     half_life_hours |-> PyFloat(48, 0),
     recency_days |-> None,
     allowed_types |-> None,
     required_keywords |-> None,
     exclude_keywords |-> None,
     yield_every |-> 1000]

(* ---------------- scoring ---------------- *)

TimeKeys == <<"last_update_time", "time", "last_modify_ts">>

(* The loop without "hours_ago is None": a key that gives no age ends it. *)
NoFallback(note, now, i, h) == h

(* The loop over the three timestamp keys of apply_time_weight and          *)
(* _passes_basic_filters: the first key that is not None and converts wins.  *)
RECURSIVE HoursAgoFrom(_, _, _)
FirstValid(note, now, i, h) == IF h.t = "none" THEN HoursAgoFrom(note, now, i + 1) ELSE h

HoursAgoOfField(note, now, i, v) ==
    FirstValid(note, now, i, IF v.t = "none" THEN None ELSE _epoch_ms_to_hours_ago(v, now))

HoursAgoFrom(note, now, i) ==
    IF i > Len(TimeKeys) THEN None
    ELSE HoursAgoOfField(note, now, i, Get(note, TimeKeys[i], None))

HoursAgo(note, now) == HoursAgoFrom(note, now, 1)

(* The first exception among the values, in order, or None. *)
RECURSIVE FirstExc(_)
FirstExc(vals) ==
    IF vals = <<>> THEN None
    ELSE IF IsExc(Head(vals)) THEN Head(vals) ELSE FirstExc(Tail(vals))

(* The note itself in the place of a copy: enriched = note. *)
DictAlias(h, ref) == [heap |-> h, ref |-> ref]

(* dict(note): a new dict object with the fields of heap[ref]. *)
DictCopy(h, ref) == [heap |-> Append(h, h[ref]), ref |-> Len(h) + 1]

(* An enriched dict that loses the note_id of the note. *)
EnrichedWithoutId(copy, like_, collect_, comment_, share_, follow_) ==
    [exc |-> None,
     heap |-> [copy.heap EXCEPT ![copy.ref] =
                 [@ EXCEPT
                    !["note_id"] = Absent,
                    !["signals"] = Signals(like_, collect_, comment_, share_, follow_),
                    !["ces"] = PyFloat(like_ * 1 + collect_ * 1 + comment_ * 4
                                       + share_ * 4 + follow_ * 8, 0)]],
     ref |-> copy.ref]

(* Lines 133-144 of compute_ces, the five counts being ints: the heap with *)
(* the enriched dict, a copy of the note with signals and ces added.       *)
Enriched(copy, like_, collect_, comment_, share_, follow_) ==
    [exc |-> None,
     heap |-> [copy.heap EXCEPT ![copy.ref] =
                 [@ EXCEPT
                    !["signals"] = Signals(like_, collect_, comment_, share_, follow_),
                    !["ces"] = PyFloat(like_ * 1 + collect_ * 1 + comment_ * 4
                                       + share_ * 4 + follow_ * 8, 0)]],
     ref |-> copy.ref]

ScoreCounts(h, ref, raised, like_, collect_, comment_, share_, follow_) ==
    IF IsExc(raised) THEN [exc |-> raised, heap |-> h, ref |-> 0]
    ELSE Enriched(DictCopy(h, ref), like_.v, collect_.v, comment_.v, share_.v, follow_.v)

ParsedCounts(h, ref, like_, collect_, comment_, share_, follow_) ==
    ScoreCounts(h, ref, FirstExc(<<like_, collect_, comment_, share_, follow_>>),
                like_, collect_, comment_, share_, follow_)

(* compute_ces on the dict heap[ref]: the exception of a count conversion, or *)
(* the heap holding the enriched dict and the reference to it.                *)
compute_ces(h, ref) ==
    ParsedCounts(h, ref,
                 _parse_count(Get(h[ref], "liked_count", None)),
                 _parse_count(Get(h[ref], "collected_count", None)),
                 _parse_count(Get(h[ref], "comment_count", None)),
                 _parse_count(Get(h[ref], "share_count", None)),
                 _parse_count(Get(h[ref], "follow_count", PyInt(0))))

Weighted(h, ref, weight) ==
    [h EXCEPT ![ref] =
        [@ EXCEPT
           !["time_weight"] = weight,
           !["weighted_ces"] = FloatMul(Get(h[ref], "ces", PyFloat(0, 0)), weight)]]

(* apply_time_weight on the dict heap[ref], which it updates in place. *)
apply_time_weight(h, ref, half_life_hours, now) ==
    Weighted(h, ref, _time_decay_weight(HoursAgo(h[ref], now), half_life_hours))

(* The else branch with a time_weight of one half. *)
HalfTimeWeight(h, ref) ==
    [h EXCEPT ![ref] =
        [@ EXCEPT !["time_weight"] = PyFloat(1, 1), !["weighted_ces"] = h[ref]["ces"]]]

(* The else branch of the enrichment loop: no decay. *)
NoTimeWeight(h, ref) ==
    [h EXCEPT ![ref] =
        [@ EXCEPT !["time_weight"] = PyFloat(1, 0), !["weighted_ces"] = h[ref]["ces"]]]

(* ---------------- basic filter ---------------- *)

Join3(a, b, c) == a \o <<" ">> \o b \o <<" ">> \o c

EmptyStr == PyStr(<<>>)

HoursPerDay == 24

TypeOn(cfg) == cfg.allowed_types.t = "list" /\ cfg.allowed_types.v # <<>>

KeywordsOn(kw) == kw.t = "list" /\ kw.v # <<>>

RecencyOn(cfg) == cfg.recency_days.t = "int" /\ cfg.recency_days.v > 0

(* The recency filter with >= in the place of >. *)
DropsAtLimit(cfg, hours_ago) ==
    IF ~RecencyOn(cfg) THEN PyBool(TRUE)
    ELSE IF hours_ago.t = "none" THEN PyBool(FALSE)
    ELSE PyBool(hours_ago.ms < cfg.recency_days.v * HoursPerDay * MsPerHour)

(* Lines 187-195: the recency filter on the age found. *)
PassesRecency(cfg, hours_ago) ==
    IF ~RecencyOn(cfg) THEN PyBool(TRUE)
    ELSE IF hours_ago.t = "none" THEN PyBool(FALSE)
    ELSE PyBool(~(hours_ago.ms > cfg.recency_days.v * HoursPerDay * MsPerHour))

(* Lines 179-195: the keyword filters on the text, then the recency filter. *)
PassesKeywords(note, cfg, now, combine_text) ==
    IF KeywordsOn(cfg.required_keywords)
       /\ ~_text_contains_any(combine_text, cfg.required_keywords.v)
    THEN PyBool(FALSE)
    ELSE IF KeywordsOn(cfg.exclude_keywords)
            /\ _text_contains_any(combine_text, cfg.exclude_keywords.v)
    THEN PyBool(FALSE)
    ELSE PassesRecency(cfg, HoursAgo(note, now))

(* Lines 166-169: the type filter, ntype being (note.get("type") or ""). *)
PassesType(cfg, ntype) ==
    IF ~TypeOn(cfg) THEN PyBool(TRUE)
    ELSE IF ntype.t # "str" THEN Exc("AttributeError")
    ELSE PyBool(\E i \in 1..Len(cfg.allowed_types.v) :
                    StrLower(cfg.allowed_types.v[i]) = StrLower(ntype.v))

TypeOrEmpty(tv) == IF Truthy(tv) THEN tv ELSE EmptyStr

AfterType(note, cfg, now, typed) ==
    IF IsExc(typed) THEN typed
    ELSE IF ~typed.v THEN PyBool(FALSE)
    ELSE PassesKeywords(note, cfg, now,
                        Join3(StrOf(Get(note, "title", EmptyStr)),
                              StrOf(Get(note, "desc", EmptyStr)),
                              StrOf(Get(note, "tag_list", EmptyStr))))

(* _passes_basic_filters: PyBool of the verdict, or the exception raised. *)
_passes_basic_filters(note, cfg, now) ==
    AfterType(note, cfg, now, PassesType(cfg, TypeOrEmpty(Get(note, "type", None))))

(* ---------------- threshold, sort, truncate ---------------- *)

(* The threshold test with "or" in the place of "and". *)
MeetsEitherThreshold(e, cfg) ==
    FloatGe(e["ces"], cfg.min_ces) \/ FloatGe(e["weighted_ces"], cfg.min_weighted_ces)

(* The threshold test without the bound on weighted_ces. *)
MeetsCesThreshold(e, cfg) == FloatGe(e["ces"], cfg.min_ces)

MeetsThresholds(e, cfg) ==
    FloatGe(e["ces"], cfg.min_ces) /\ FloatGe(e["weighted_ces"], cfg.min_weighted_ces)

(* The list comprehension of the threshold stage. *)
RECURSIVE Threshold(_, _, _)
Threshold(h, refs, cfg) ==
    IF refs = <<>> THEN <<>>
    ELSE (IF MeetsThresholds(h[Head(refs)], cfg) THEN <<Head(refs)>> ELSE <<>>)
         \o Threshold(h, Tail(refs), cfg)

SortKey(h, ref) == Get(h[ref], "weighted_ces", PyFloat(0, 0))

(* x placed ahead of the elements with an equal key: an order that is not stable. *)
RECURSIVE InsertAhead(_, _, _)
InsertAhead(h, sorted, x) ==
    IF sorted = <<>> THEN <<x>>
    ELSE IF FloatGt(Get(h[Head(sorted)], "weighted_ces", PyFloat(0, 0)),
                    Get(h[x], "weighted_ces", PyFloat(0, 0)))
    THEN <<Head(sorted)>> \o InsertAhead(h, Tail(sorted), x)
    ELSE <<x>> \o sorted

(* x placed behind every element whose key is not smaller: the stable order  *)
(* of list.sort(key=..., reverse=True).                                      *)
RECURSIVE InsertDesc(_, _, _)
InsertDesc(h, sorted, x) ==
    IF sorted = <<>> THEN <<x>>
    ELSE IF FloatGe(SortKey(h, Head(sorted)), SortKey(h, x))
    THEN <<Head(sorted)>> \o InsertDesc(h, Tail(sorted), x)
    ELSE <<x>> \o sorted

(* No sort: the list in the order of the input. *)
KeepOrder(h, refs) == refs

RECURSIVE SortDesc(_, _)
SortDesc(h, refs) ==
    IF refs = <<>> THEN <<>>
    ELSE InsertDesc(h, SortDesc(h, SubSeq(refs, 1, Len(refs) - 1)), refs[Len(refs)])

(* seq[:n] for n >= 0 *)
Prefix(seq, n) == SubSeq(seq, 1, IF n < Len(seq) THEN n ELSE Len(seq))

Max(a, b) == IF a >= b THEN a ELSE b

PercentOn(p) == p.t = "float" /\ FloatGt(p, PyFloat(0, 0)) /\ FloatGt(PyFloat(1, 0), p)

TopPercent(refs, p) ==
    IF PercentOn(p)
    THEN Prefix(refs, Max(1, FloatToInt(FloatMul(PyFloat(Len(refs), 0), p))))
    ELSE refs

TopK(refs, k) == IF k.t = "int" /\ k.v > 0 THEN Prefix(refs, k.v) ELSE refs

(* The two slices in the other order, top_k first. *)
TruncateKFirst(refs, cfg) == TopPercent(TopK(refs, cfg.top_k), cfg.top_percent)

(* The two slices of the truncation stage, top_percent first. *)
Truncate(refs, cfg) == TopK(TopPercent(refs, cfg.top_percent), cfg.top_k)

(* ---------------- inputs ---------------- *)

(* Largest number of notes of an input list. *)
MaxNotes == 3

(* Largest number of times the clock advances during a run. *)
MaxTicks == 1

S(chars) == PyStr(chars)

(* The clock at the call and the step by which it advances, in milliseconds: *)
(* three and one half-lives of 48 hours.                                     *)
HalfLifeMs == 48 * MsPerHour

Now0 == 3 * HalfLifeMs

NoteOld ==
    Dict([note_id |-> S(<<"a">>), type |-> S(<<"v", "i", "d", "e", "o">>),
          title |-> S(<<"o", "l", "d">>), liked_count |-> S(<<"8">>), ces |-> PyInt(99),
          last_update_time |-> PyInt(Now0 - 2 * HalfLifeMs)])

NoteFresh ==
    Dict([note_id |-> S(<<"b">>), type |-> S(<<"V", "i", "d", "e", "o">>),
          title |-> S(<<"S", "P", "A", "M">>), liked_count |-> S(<<"2">>),
          comment_count |-> PyInt(1), time |-> S(IntToStr(Now0))])

NoteMid ==
    Dict([note_id |-> S(<<"c">>), type |-> S(<<"n", "o", "r", "m", "a", "l">>),
          desc |-> S(<<"n", "o", " ", "s", "p", "a", "m">>),
          liked_count |-> S(<<" ", "4", " ">>), collected_count |-> S(<<"a", "b", "c">>),
          last_update_time |-> S(<<"a", "b", "c">>), time |-> PyInt(0),
          last_modify_ts |-> PyInt(Now0 - HalfLifeMs)])

NoteOdd ==
    Dict([note_id |-> PyInt(7), type |-> PyInt(123), title |-> PyInt(5), desc |-> None,
          tag_list |-> PyObj(<<"[", "'", "x", "'", "]">>, FALSE),
          liked_count |-> PyFloat(-7, 1), collected_count |-> None,
          comment_count |-> S(<<"1", ".", "5">>), share_count |-> S(<<>>),
          follow_count |-> S(<<"n", "a", "n">>),
          last_update_time |-> PyInt(-5), time |-> FInf,
          last_modify_ts |-> S(<<"1", ".", "5">>)])

NoteInf ==
    Dict([note_id |-> S(<<"e">>), type |-> S(<<"v", "i", "d", "e", "o">>),
          liked_count |-> S(<<"i", "n", "f">>), time |-> PyInt(Now0)])

NoteBare ==
    Dict([note_id |-> S(<<"f">>), liked_count |-> S(<<"-", "3">>)])

Notes == <<NoteOld, NoteFresh, NoteMid, NoteOdd, NoteInf, NoteBare>>

ItemPool == {Notes[i] : i \in 1..Len(Notes)}

With(cfg, fields) == [k \in DOMAIN cfg |-> IF k \in DOMAIN fields THEN fields[k] ELSE cfg[k]]

Half == PyFloat(1, 1)

Video == <<"v", "i", "d", "e", "o">>

Spam == <<"s", "p", "a", "m">>

ConfigList ==
    <<CESFilterConfig,
     With(CESFilterConfig, [yield_every |-> 1]),
     With(CESFilterConfig, [yield_every |-> 2]),
     With(CESFilterConfig, [yield_every |-> 0]),
     With(CESFilterConfig, [yield_every |-> -1]),
     With(CESFilterConfig, [enable_time_decay |-> FALSE]),
     With(CESFilterConfig, [half_life_hours |-> PyFloat(0, 0)]),
     With(CESFilterConfig, [half_life_hours |-> PyFloat(24, 0), yield_every |-> 1]),
     With(CESFilterConfig, [min_ces |-> PyFloat(5, 0)]),
     With(CESFilterConfig, [min_weighted_ces |-> PyFloat(3, 0)]),
     With(CESFilterConfig, [min_weighted_ces |-> PyFloat(5, 1), top_k |-> PyInt(2)]),
     With(CESFilterConfig, [min_ces |-> PyFloat(100, 0)]),
     With(CESFilterConfig, [min_ces |-> PyFloat(-5, 0), min_weighted_ces |-> PyFloat(-5, 0)]),
     With(CESFilterConfig, [top_k |-> PyInt(1)]),
     With(CESFilterConfig, [top_k |-> PyInt(2), yield_every |-> 2]),
     With(CESFilterConfig, [top_k |-> PyInt(0)]),
     With(CESFilterConfig, [top_k |-> PyInt(-1)]),
     With(CESFilterConfig, [top_percent |-> Half]),
     With(CESFilterConfig, [top_percent |-> Half, top_k |-> PyInt(1)]),
     With(CESFilterConfig, [top_percent |-> PyFloat(1, 2), top_k |-> PyInt(2)]),
     With(CESFilterConfig, [top_percent |-> PyFloat(3, 2), top_k |-> PyInt(2)]),
     With(CESFilterConfig, [top_percent |-> PyFloat(1, 0)]),
     With(CESFilterConfig, [top_percent |-> PyFloat(0, 0)]),
     With(CESFilterConfig, [top_percent |-> PyFloat(3, 1)]),
     With(CESFilterConfig, [top_percent |-> PyFloat(-1, 1)]),
     With(CESFilterConfig, [allowed_types |-> PyList(<<Video>>), top_k |-> PyInt(1)]),
     With(CESFilterConfig, [allowed_types |-> PyList(<<<<"N", "o", "r", "m", "a", "l">>, Video>>),
                            yield_every |-> 1]),
     With(CESFilterConfig, [allowed_types |-> PyList(<<>>)]),
     With(CESFilterConfig, [required_keywords |-> PyList(<<Spam>>)]),
     With(CESFilterConfig, [exclude_keywords |-> PyList(<<Spam>>)]),
     With(CESFilterConfig, [recency_days |-> PyInt(2)]),
     With(CESFilterConfig, [recency_days |-> PyInt(1), yield_every |-> 1]),
     With(CESFilterConfig, [recency_days |-> PyInt(0)])>>

Configs == {ConfigList[i] : i \in 1..Len(ConfigList)}

(* The values score_and_filter_notes is called with as notes that are not lists. *)
NonLists == {None, PyInt(0), PyInt(5)}

(* ---------------- state ---------------- *)

VARIABLES
    heap,      \* the dict objects: heap[ref] is the dict the reference ref names
    clock,     \* time.time() * 1000
    notes,     \* notes[r]: the argument notes of invocation r
    cfg,       \* cfg[r]: the argument cfg of invocation r
    pc,        \* pc[r]: where invocation r stands
    idx,       \* idx[r]: number of items the current loop has processed
    filtered,  \* filtered[r]: the list filtered, as references
    enriched,  \* enriched[r]: the list enriched the second loop builds
    kept,      \* kept[r]: the list enriched after the threshold filter
    result,    \* result[r]: the list returned or the exception raised
    orig,      \* the heap and the arguments notes as the callers handed them over
    origin,    \* origin[ref]: the input dict heap[ref] was enriched from
    checked,   \* checked[r]: the references _passes_basic_filters was called on
    scored,    \* scored[r]: the references compute_ces was called on, in order
    yields,    \* yields[r]: the suspensions of each loop so far
    ticks,     \* number of clock advances so far
    call,      \* a call of one helper function on its own: function, arguments, result
    dify,      \* the semaphore _sem and the calls of _post_json_with_retry
    task       \* one request of handle_task

vars == <<heap, clock, notes, cfg, pc, idx, filtered, enriched, kept, result,
          orig, origin, checked, scored, yields, ticks, call, dify, task>>

Pending == [t |-> "pending"]

Runs == DOMAIN pc

(* No helper call on its own: the state is that of pipeline runs. *)
NoCall == [fn |-> "none"]

(* No call of _post_json_with_retry and no request. *)
NoPosts == [sem |-> 0, calls |-> <<>>]

NoTask == [at |-> "none"]

(* One invocation on the input value with the config c, the dicts of items on the heap. *)
Started(items, input, c) ==
    /\ heap = items
    /\ orig = [heap |-> items, notes |-> <<input>>]
    /\ origin = [i \in 1..Len(items) |-> i]
    /\ clock = Now0
    /\ ticks = 0
    /\ notes = <<input>>
    /\ cfg = <<c>>
    /\ pc = <<"call">>
    /\ idx = <<0>>
    /\ filtered = <<<<>>>>
    /\ enriched = <<<<>>>>
    /\ kept = <<<<>>>>
    /\ result = <<Pending>>
    /\ checked = <<<<>>>>
    /\ scored = <<<<>>>>
    /\ yields = <<[filter |-> 0, enrich |-> 0]>>
    /\ dify = NoPosts

(* A call of score_and_filter_notes itself. *)
Start(items, input, c) == Started(items, input, c) /\ call = NoCall /\ task = NoTask

Init ==
    \E c \in Configs :
        \/ \E n \in 0..MaxNotes : \E items \in [1..n -> ItemPool] :
               Start(items, PyList([i \in 1..n |-> i]), c)
        \/ \E x \in NonLists : Start(<<>>, x, c)

(* The test on idx in the place of idx + 1: the counts must differ. *)
YieldDueOnIndex(c, done) == c.yield_every # 0 /\ PyMod(done - 1, c.yield_every) = 0

(* cfg.yield_every and (idx + 1) % cfg.yield_every == 0, for done = idx + 1 *)
YieldDue(c, done) == c.yield_every # 0 /\ PyMod(done, c.yield_every) = 0

Return(r, value) ==
    /\ result' = [result EXCEPT ![r] = value]
    /\ pc' = [pc EXCEPT ![r] = IF IsExc(value) THEN "raised" ELSE "done"]

(* Lines 214-219: the guard on notes and the start of the first loop. *)
Call(r) ==
    /\ pc[r] = "call"
    /\ IF ~Truthy(IF notes[r].t = "list" THEN PyStr(notes[r].v) ELSE notes[r])
       THEN Return(r, PyList(<<>>))
       ELSE IF notes[r].t # "list"
       THEN Return(r, Exc("TypeError"))
       ELSE /\ pc' = [pc EXCEPT ![r] = "filter"]
            /\ UNCHANGED result
    /\ UNCHANGED <<heap, clock, notes, cfg, idx, filtered, enriched, kept,
                   orig, origin, checked, scored, yields, ticks, call, dify, task>>

(* The survivors kept in one list that all invocations append to. *)
FilteredShared(r, n, passes) ==
    IF IsExc(passes)
    THEN /\ Return(r, passes)
         /\ UNCHANGED <<idx, filtered, yields>>
    ELSE /\ filtered' = [q \in Runs |-> IF passes.v THEN Append(filtered[q], n)
                                        ELSE filtered[q]]
         /\ idx' = [idx EXCEPT ![r] = @ + 1]
         /\ IF YieldDue(cfg[r], idx[r] + 1)
            THEN /\ pc' = [pc EXCEPT ![r] = "filter_yield"]
                 /\ yields' = [yields EXCEPT ![r].filter = @ + 1]
            ELSE UNCHANGED <<pc, yields>>
         /\ UNCHANGED result

Filtered(r, n, passes) ==
    IF IsExc(passes)
    THEN /\ Return(r, passes)
         /\ UNCHANGED <<idx, filtered, yields>>
    ELSE /\ filtered' = [filtered EXCEPT ![r] = IF passes.v THEN Append(@, n) ELSE @]
         /\ idx' = [idx EXCEPT ![r] = @ + 1]
         /\ IF YieldDue(cfg[r], idx[r] + 1)
            THEN /\ pc' = [pc EXCEPT ![r] = "filter_yield"]
                 /\ yields' = [yields EXCEPT ![r].filter = @ + 1]
            ELSE UNCHANGED <<pc, yields>>
         /\ UNCHANGED result

FilterNote(r, n) ==
    /\ checked' = [checked EXCEPT ![r] = Append(@, n)]
    /\ \E passed \in {_passes_basic_filters(heap[n], cfg[r], clock)} : Filtered(r, n, passed)

(* One iteration of the basic-filter loop, lines 219-224. *)
FilterStep(r) ==
    /\ pc[r] = "filter"
    /\ idx[r] < Len(notes[r].v)
    /\ FilterNote(r, notes[r].v[idx[r] + 1])
    /\ UNCHANGED <<heap, clock, notes, cfg, enriched, kept, orig, origin, scored, ticks, call, dify, task>>

(* The end of the first loop, lines 226-231. *)
FilterExit(r) ==
    /\ pc[r] = "filter"
    /\ idx[r] = Len(notes[r].v)
    /\ IF filtered[r] = <<>>
       THEN /\ Return(r, PyList(<<>>))
            /\ UNCHANGED idx
       ELSE /\ pc' = [pc EXCEPT ![r] = "enrich"]
            /\ idx' = [idx EXCEPT ![r] = 0]
            /\ UNCHANGED result
    /\ UNCHANGED <<heap, clock, notes, cfg, filtered, enriched, kept,
                   orig, origin, checked, scored, yields, ticks, call, dify, task>>

(* Lines 238-241: the enriched dict, complete on the heap h, joins the list. *)
Collected(r, n, h, ref) ==
    /\ heap' = h
    /\ origin' = IF Len(h) > Len(heap) THEN Append(origin, origin[n]) ELSE origin
    /\ enriched' = [enriched EXCEPT ![r] = Append(@, ref)]
    /\ idx' = [idx EXCEPT ![r] = @ + 1]
    /\ IF YieldDue(cfg[r], idx[r] + 1)
       THEN /\ pc' = [pc EXCEPT ![r] = "enrich_yield"]
            /\ yields' = [yields EXCEPT ![r].enrich = @ + 1]
       ELSE UNCHANGED <<pc, yields>>
    /\ UNCHANGED result

(* Lines 233-237, e being what compute_ces returned. *)
Scored(r, n, e) ==
    IF IsExc(e.exc)
    THEN /\ Return(r, e.exc)
         /\ UNCHANGED <<heap, origin, enriched, idx, yields>>
    ELSE IF cfg[r].enable_time_decay
    THEN \E h \in {apply_time_weight(e.heap, e.ref, cfg[r].half_life_hours, clock)} :
             Collected(r, n, h, e.ref)
    ELSE Collected(r, n, NoTimeWeight(e.heap, e.ref), e.ref)

EnrichNote(r, n) ==
    /\ scored' = [scored EXCEPT ![r] = Append(@, n)]
    /\ \E e \in {compute_ces(heap, n)} : Scored(r, n, e)

(* One iteration of the enrichment loop, lines 231-241. *)
EnrichStep(r) ==
    /\ pc[r] = "enrich"
    /\ idx[r] < Len(filtered[r])
    /\ EnrichNote(r, filtered[r][idx[r] + 1])
    /\ UNCHANGED <<clock, notes, cfg, filtered, kept, orig, checked, ticks, call, dify, task>>

(* The truncation ahead of the sort. *)
RankedCutFirst(r, survivors) ==
    /\ kept' = [kept EXCEPT ![r] = survivors]
    /\ IF survivors = <<>>
       THEN Return(r, PyList(<<>>))
       ELSE Return(r, PyList(SortDesc(heap, Truncate(survivors, cfg[r]))))

(* Lines 249-262, survivors being the list the threshold filter left. *)
Ranked(r, survivors) ==
    /\ kept' = [kept EXCEPT ![r] = survivors]
    /\ IF survivors = <<>>
       THEN Return(r, PyList(<<>>))
       ELSE \E sorted \in {SortDesc(heap, survivors)} :
                Return(r, PyList(Truncate(sorted, cfg[r])))

(* Threshold filter, sort and truncation, lines 244-262. *)
Finish(r) ==
    /\ pc[r] = "enrich"
    /\ idx[r] = Len(filtered[r])
    /\ \E survivors \in {Threshold(heap, enriched[r], cfg[r])} : Ranked(r, survivors)
    /\ UNCHANGED <<heap, clock, notes, cfg, idx, filtered, enriched,
                   orig, origin, checked, scored, yields, ticks, call, dify, task>>

AtYield(r) == pc[r] \in {"filter_yield", "enrich_yield"}

(* A suspended invocation that is never resumed. *)
NeverResumed(r) == AtYield(r) /\ UNCHANGED vars

(* await asyncio.sleep(0) returns: the loop goes on. *)
Resume(r) ==
    /\ AtYield(r)
    /\ pc' = [pc EXCEPT ![r] = IF pc[r] = "filter_yield" THEN "filter" ELSE "enrich"]
    /\ UNCHANGED <<heap, clock, notes, cfg, idx, filtered, enriched, kept, result,
                   orig, origin, checked, scored, yields, ticks, call, dify, task>>

(* The host scheduler abandons the coroutine at a yield point. *)
Cancel(r) ==
    /\ AtYield(r)
    /\ pc' = [pc EXCEPT ![r] = "cancelled"]
    /\ UNCHANGED <<heap, clock, notes, cfg, idx, filtered, enriched, kept, result,
                   orig, origin, checked, scored, yields, ticks, call, dify, task>>

(* Wall-clock time passes while an invocation is suspended. *)
Tick ==
    /\ \E r \in Runs : AtYield(r)
    /\ ticks < MaxTicks
    /\ ticks' = ticks + 1
    /\ clock' = clock + HalfLifeMs
    /\ UNCHANGED <<heap, notes, cfg, pc, idx, filtered, enriched, kept, result,
                   orig, origin, checked, scored, yields, call, dify, task>>

Next ==
    \/ \E r \in Runs : Call(r)
    \/ \E r \in Runs : FilterStep(r)
    \/ \E r \in Runs : FilterExit(r)
    \/ \E r \in Runs : EnrichStep(r)
    \/ \E r \in Runs : Finish(r)
    \/ \E r \in Runs : Resume(r)
    \/ \E r \in Runs : Cancel(r)
    \/ Tick

Spec == Init /\ [][Next]_vars

(* ---------------- properties ---------------- *)

Returned(r) == pc[r] = "done"

Raised(r) == pc[r] = "raised"

Out(r) == result[r].v

(* C1: at every point of a run, completed, raised, suspended or abandoned at *)
(* a yield point, the caller's list and every dict of it are as they were    *)
(* handed over: derived fields are written to copies only.                   *)
C1_InputsUntouched ==
    /\ notes = orig.notes
    /\ \A ref \in 1..Len(orig.heap) : heap[ref] = orig.heap[ref]

(* A run abandoned in the enrichment loop after derived fields were written. *)
C1_Witness ==
    \E r \in Runs : pc[r] = "cancelled" /\ enriched[r] # <<>> /\ Len(heap) > Len(orig.heap)

(* C2: a run on a list of dicts never ends in an exception, whatever the *)
(* values of the fields of the items.                                    *)
C2_NeverRaisesOnFields == \A r \in Runs : notes[r].t = "list" => ~Raised(r)

(* The dict heap[ref] meets the two bounds of the config of run r. *)
WithinBounds(r, ref) ==
    /\ FloatGe(heap[ref]["ces"], cfg[r].min_ces)
    /\ FloatGe(heap[ref]["weighted_ces"], cfg[r].min_weighted_ces)

Elements(seq) == {seq[i] : i \in 1..Len(seq)}

(* The three situations of an empty result. *)
EmptyInput(r) ==
    /\ pc[r] # "call"
    /\ notes[r].t = "none" \/ (notes[r].t = "list" /\ notes[r].v = <<>>)

NoBasicSurvivor(r) ==
    /\ notes[r].t = "list" /\ notes[r].v # <<>>
    /\ idx[r] = Len(notes[r].v) /\ filtered[r] = <<>>
    /\ pc[r] \notin {"call", "filter", "filter_yield", "cancelled"}

NoThresholdSurvivor(r) ==
    /\ pc[r] \notin {"call", "filter", "filter_yield", "enrich", "enrich_yield", "cancelled"}
    /\ filtered[r] # <<>> /\ Len(enriched[r]) = Len(filtered[r])
    /\ \A i \in 1..Len(enriched[r]) : ~WithinBounds(r, enriched[r][i])

ReturnedEmpty(r) == Returned(r) /\ result[r] = PyList(<<>>)

(* C3 as stated: an empty or None input, a basic filter without survivor and *)
(* a threshold filter without survivor each end the run with an empty list,  *)
(* no exception and no item scored.                                          *)
C3_EmptyAndNothingScored ==
    \A r \in Runs :
        (EmptyInput(r) \/ NoBasicSurvivor(r) \/ NoThresholdSurvivor(r))
            => ReturnedEmpty(r) /\ scored[r] = <<>>

(* C3, amended: the three situations end the run with an empty list and no    *)
(* exception; no item is scored for an empty or None input or a basic filter  *)
(* without survivor, and when the threshold filter leaves no survivor exactly *)
(* the survivors of the basic filter have been scored.                        *)
C3_EmptyResult ==
    \A r \in Runs :
        /\ EmptyInput(r) => ReturnedEmpty(r) /\ checked[r] = <<>> /\ scored[r] = <<>>
        /\ NoBasicSurvivor(r) => ReturnedEmpty(r) /\ scored[r] = <<>>
        /\ NoThresholdSurvivor(r) => ReturnedEmpty(r) /\ scored[r] = filtered[r]

(* The threshold filter has dropped every scored item. *)
C3_Witness ==
    \E r \in Runs : NoThresholdSurvivor(r) /\ Len(scored[r]) >= 2 /\ ReturnedEmpty(r)

(* C4: notes that is not a sequence gives an empty result and no exception. *)
C4_NonSequenceGivesEmpty ==
    \A r \in Runs : (notes[r].t # "list" /\ pc[r] # "call") => ReturnedEmpty(r)

WeightedCes(ref) == heap[ref]["weighted_ces"]

(* C5: in a returned list each item has a weighted_ces greater than or equal *)
(* to that of the item behind it.                                            *)
C5_NonIncreasing ==
    \A r \in Runs :
        Returned(r) =>
            \A i \in 1..(Len(Out(r)) - 1) :
                FloatGe(WeightedCes(Out(r)[i]), WeightedCes(Out(r)[i + 1]))

(* A returned list the sort has reordered, with a strict decrease in it. *)
C5_Witness ==
    \E r \in Runs :
        /\ Returned(r) /\ Len(Out(r)) >= 2
        /\ Out(r) # kept[r]
        /\ Len(Out(r)) = Len(kept[r])
        /\ \E i \in 1..(Len(Out(r)) - 1) :
               FloatGt(WeightedCes(Out(r)[i]), WeightedCes(Out(r)[i + 1]))

(* C6: every returned item has ces >= min_ces and weighted_ces >=            *)
(* min_weighted_ces of the config of the run, and every enriched item the    *)
(* threshold stage removed is below at least one of the two bounds.          *)
C6_Thresholds ==
    \A r \in Runs :
        Returned(r) =>
            /\ \A i \in 1..Len(Out(r)) : WithinBounds(r, Out(r)[i])
            /\ \A i \in 1..Len(enriched[r]) :
                   enriched[r][i] \notin Elements(kept[r]) => ~WithinBounds(r, enriched[r][i])

(* A returned list next to an item removed for its weighted_ces alone. *)
C6_Witness ==
    \E r \in Runs :
        /\ Returned(r) /\ Out(r) # <<>>
        /\ \E i \in 1..Len(enriched[r]) :
               /\ enriched[r][i] \notin Elements(kept[r])
               /\ FloatGe(heap[enriched[r][i]]["ces"], cfg[r].min_ces)

(* The counts of C7 for a run with n items past both filters. *)
PercentCut(p, n) ==
    IF p.t = "float" /\ p.m > 0 /\ p.m < Pow2(p.e)
    THEN Max(1, (n * p.m) \div Pow2(p.e))
    ELSE n

TopKCut(k, n) == IF k.t = "int" /\ k.v > 0 THEN k.v ELSE n

Min(a, b) == IF a <= b THEN a ELSE b

OutLength(r) ==
    Min(TopKCut(cfg[r].top_k, Len(kept[r])), PercentCut(cfg[r].top_percent, Len(kept[r])))

C8_StageOrder ==
    \A r \in Runs :
        /\ scored[r] = SubSeq(filtered[r], 1, Len(scored[r]))
        /\ Elements(filtered[r]) \subseteq Elements(checked[r])
        /\ scored[r] # <<>> => Len(checked[r]) = Len(notes[r].v)
        /\ \A i \in 1..Len(enriched[r]) : origin[enriched[r][i]] = filtered[r][i]
        /\ Elements(kept[r]) \subseteq Elements(enriched[r])
        /\ kept[r] # <<>> => Len(enriched[r]) = Len(filtered[r])
        /\ Returned(r) =>
               /\ Elements(Out(r)) \subseteq Elements(kept[r])
               /\ \A a \in Elements(kept[r]) \ Elements(Out(r)) :
                      \A b \in Elements(Out(r)) : ~FloatGt(WeightedCes(a), WeightedCes(b))

(* A run in which the basic filter drops an item and the truncation another. *)
C8_Witness ==
    \E r \in Runs :
        /\ Returned(r) /\ Out(r) # <<>>
        /\ Len(filtered[r]) < Len(notes[r].v)
        /\ Len(Out(r)) < Len(kept[r])

(* The keys the pipeline writes. *)
AddedKeys == {"signals", "ces", "time_weight", "weighted_ces"}

(* The input item, as the caller handed it over, the dict heap[ref] was made from. *)
Source(ref) == orig.heap[origin[ref]]

(* heap[ref] is a new dict that has every one of the four added keys. *)
AugmentedCopy(r, ref) ==
    /\ ref > Len(orig.heap)
    /\ origin[ref] \in Elements(notes[r].v)
    /\ \A k \in AddedKeys : heap[ref][k].t # "absent"

(* The input item i has no returned item and one of the three stages excluded it. *)
Excluded(r, i) ==
    \/ i \in Elements(checked[r]) \ Elements(filtered[r])
    \/ \E j \in 1..Len(enriched[r]) :
           /\ origin[enriched[r][j]] = i
           /\ \/ ~WithinBounds(r, enriched[r][j])
              \/ \E p \in (Len(Out(r)) + 1)..Len(kept[r]) :
                     SortDesc(heap, kept[r])[p] = enriched[r][j]

OneToOne(r) ==
    /\ \A i, j \in 1..Len(Out(r)) : origin[Out(r)[i]] = origin[Out(r)[j]] => i = j
    /\ \A i \in Elements(notes[r].v) :
           (\A j \in 1..Len(Out(r)) : origin[Out(r)[j]] # i) => Excluded(r, i)
    /\ Len(Out(r)) <= Len(notes[r].v)

(* C9 as stated: every returned item is the augmented copy of one input item *)
(* with every field of that item unchanged and the four added keys; no input *)
(* item has two returned items; an input item without returned item was     *)
(* excluded by the basic filter, the threshold filter or the truncation.     *)
C9_AllFieldsUnchanged ==
    \A r \in Runs :
        (Returned(r) /\ notes[r].t = "list") =>
            /\ \A i \in 1..Len(Out(r)) :
                   /\ AugmentedCopy(r, Out(r)[i])
                   /\ \A k \in Keys :
                          Source(Out(r)[i])[k].t # "absent"
                              => heap[Out(r)[i]][k] = Source(Out(r)[i])[k]
            /\ OneToOne(r)

(* C9, amended: the same, the unchanged fields being those under keys other  *)
(* than signals, ces, time_weight and weighted_ces; under these four keys    *)
(* the returned item has the values of the run, whatever the input had.      *)
C9_OtherFieldsUnchanged ==
    \A r \in Runs :
        (Returned(r) /\ notes[r].t = "list") =>
            /\ \A i \in 1..Len(Out(r)) :
                   /\ AugmentedCopy(r, Out(r)[i])
                   /\ \A k \in Keys \ AddedKeys :
                          heap[Out(r)[i]][k] = Source(Out(r)[i])[k]
                   /\ heap[Out(r)[i]]["ces"].t = "float"
            /\ OneToOne(r)

(* A returned item whose input had a ces of its own, next to an excluded input. *)
C9_Witness ==
    \E r \in Runs :
        /\ Returned(r) /\ notes[r].t = "list" /\ Len(Out(r)) < Len(notes[r].v)
        /\ \E i \in 1..Len(Out(r)) :
               /\ Source(Out(r)[i])["ces"].t # "absent"
               /\ heap[Out(r)[i]]["ces"] # Source(Out(r)[i])["ces"]

(* The type of the dict heap[n] is a string that is, in lower case, one of   *)
(* allowed_types in lower case.                                              *)
TypeAllowed(r, n) ==
    /\ heap[n]["type"].t = "str"
    /\ \E i \in 1..Len(cfg[r].allowed_types.v) :
           StrLower(cfg[r].allowed_types.v[i]) = StrLower(heap[n]["type"].v)

(* The basic filter raised on the item at place i of checked. *)
FilterRaisedAt(r, i) == Raised(r) /\ scored[r] = <<>> /\ i = Len(checked[r])

NoOtherFilter(r) ==
    /\ ~KeywordsOn(cfg[r].required_keywords)
    /\ ~KeywordsOn(cfg[r].exclude_keywords)
    /\ ~RecencyOn(cfg[r])

(* The part of C10 on the survivors: with allowed_types configured every     *)
(* survivor of the basic filter has an allowed type, and without it (absent  *)
(* or empty) and without another filter every item checked survives.         *)
TypeFilterSound ==
    \A r \in Runs :
        notes[r].t = "list" =>
            /\ TypeOn(cfg[r]) => \A i \in 1..Len(filtered[r]) : TypeAllowed(r, filtered[r][i])
            /\ (~TypeOn(cfg[r]) /\ NoOtherFilter(r)) => filtered[r] = checked[r]

(* C10: with allowed_types configured an item survives the basic filter only *)
(* if its type is, case-insensitively, one of allowed_types, and an item of  *)
(* another type or without type is dropped, the run going on; with           *)
(* allowed_types absent no item is dropped for its type.                     *)
C10_TypeFilter ==
    \A r \in Runs :
        notes[r].t = "list" =>
            /\ TypeOn(cfg[r]) =>
                   \A i \in 1..Len(checked[r]) :
                       ~TypeAllowed(r, checked[r][i]) =>
                           /\ checked[r][i] \notin Elements(filtered[r])
                           /\ ~FilterRaisedAt(r, i)
            /\ (~TypeOn(cfg[r]) /\ NoOtherFilter(r)) => filtered[r] = checked[r]

(* ---------------- the helper functions on their own ---------------- *)

(* Notes for the calls of _passes_basic_filters, next to those of ItemPool. *)
NoteTagged ==
    Dict([note_id |-> S(<<"g">>), tag_list |-> S(<<"x", ",", "S", "p", "A", "m">>),
          last_update_time |-> PyInt(Now0 + MsPerHour)])

NoteSplit ==
    Dict([note_id |-> S(<<"h">>), type |-> PyInt(0), title |-> S(<<"s", "p">>),
          desc |-> S(<<"a", "m">>), time |-> S(IntToStr(Now0 - HalfLifeMs - 1))])

FilterNotes == ItemPool \cup {NoteTagged, NoteSplit}

(* Configs that combine filters, next to those of Configs. *)
FilterConfigs ==
    Configs \cup
    {With(CESFilterConfig, [required_keywords |-> PyList(<<Spam>>),
                            exclude_keywords |-> PyList(<<<<"O", "l", "d">>, Spam>>)]),
     With(CESFilterConfig, [required_keywords |-> PyList(<<<<"x">>, <<"N", "O", "N", "E">>>>)]),
     With(CESFilterConfig, [required_keywords |-> PyList(<<>>),
                            exclude_keywords |-> PyList(<<<<"s", "p", " ", "a">>>>)]),
     With(CESFilterConfig, [allowed_types |-> PyList(<<Video>>),
                            exclude_keywords |-> PyList(<<Spam>>)]),
     With(CESFilterConfig, [required_keywords |-> PyList(<<Spam>>), recency_days |-> PyInt(2)]),
     With(CESFilterConfig, [recency_days |-> PyInt(-1)]),
     With(CESFilterConfig, [recency_days |-> PyInt(4), enable_time_decay |-> FALSE])}

(* The values of time.time() * 1000 of the calls. *)
Clocks == {Now0, Now0 + 1, Now0 + HalfLifeMs}

FilterCalls ==
    {[fn |-> "_passes_basic_filters", note |-> n, cfg |-> c, now |-> t, ret |-> Pending] :
        n \in FilterNotes, c \in FilterConfigs, t \in Clocks}

(* A note with three valid timestamps that differ, and one whose first is null. *)
NoteStamps ==
    Dict([note_id |-> S(<<"i">>), liked_count |-> PyInt(3),
          last_update_time |-> PyInt(Now0 - HalfLifeMs), time |-> PyInt(Now0 - 2 * HalfLifeMs),
          last_modify_ts |-> PyInt(Now0)])

NoteNull ==
    Dict([note_id |-> S(<<"j">>), liked_count |-> PyInt(3), last_update_time |-> None,
          time |-> PyFloat(1, 1), last_modify_ts |-> S(IntToStr(Now0 - 2 * HalfLifeMs))])

StampNotes == FilterNotes \cup {NoteStamps, NoteNull}

(* compute_ces(note) on a heap of its own: the exception, or the enriched dict. *)
ScoreOf(e) == IF IsExc(e.exc) THEN e.exc ELSE e.heap[e.ref]

ScoredNotes == {ScoreOf(compute_ces(<<n>>, 1)) : n \in StampNotes} \ {Exc("OverflowError")}

HalfLives ==
    {PyFloat(48, 0), PyFloat(24, 0), PyFloat(1, 4), PyFloat(0, 0), PyFloat(-1, 0)}

(* The age of the note is a whole number of half-lives, if it has one. *)
WholeAge(hours_ago, half_life_hours) ==
    \/ hours_ago.t = "none"
    \/ half_life_hours.m <= 0
    \/ hours_ago.ms % HalfLifeInMs(half_life_hours) = 0

WeightCalls ==
    {c \in {[fn |-> "apply_time_weight", note |-> n, half_life_hours |-> h, now |-> t,
             ret |-> Pending] : n \in ScoredNotes, h \in HalfLives, t \in Clocks} :
        WholeAge(HoursAgo(c.note, c.now), c.half_life_hours)}

RecencyCalls ==
    {[fn |-> "_passes_basic_filters", note |-> n, cfg |-> c, now |-> t, ret |-> Pending] :
        n \in {NoteStamps, NoteNull},
        c \in {With(CESFilterConfig, [recency_days |-> PyInt(d)]) : d \in 1..3},
        t \in Clocks}

(* The values the timestamp fields are read with. *)
Stamps ==
    {None, PyInt(0), PyInt(-5), PyInt(1), PyInt(Now0), PyInt(Now0 - MsPerHour),
     PyInt(Now0 + 1), PyInt(Now0 + HalfLifeMs), PyFloat(1, 1), PyFloat(5, 1), FInf, FNan,
     S(<<>>), S(<<"a", "b", "c">>), S(<<"1", ".", "5">>), S(<<" ", "7", " ">>),
     S(<<"-", "7">>), S(IntToStr(Now0 - HalfLifeMs)), PyObj(<<"[", "1", "]">>, FALSE)}

EpochCalls ==
    {[fn |-> "_epoch_ms_to_hours_ago", ms_val |-> v, now |-> t, ret |-> Pending] :
        v \in Stamps, t \in Clocks}

(* Largest number of half-lives of an age past the smallest subnormal. *)
MaxPast == 2

(* The ages, in half-lives, of the calls of _time_decay_weight: the first    *)
(* ones and those around the smallest subnormal.                             *)
AgeCounts == 0..3 \cup (MaxFloatExp - 1)..(MaxFloatExp + MaxPast)

(* The half-life of one sixteenth of an hour, whose ages of AgeCounts fit. *)
ShortHalfLife == PyFloat(1, 4)

(* Two calls with the same half-life, the second with a greater age. *)
DecayCalls ==
    {[fn |-> "_time_decay_weight", hours_ago |-> Hours(a * HalfLifeInMs(ShortHalfLife)),
      later |-> Hours(b * HalfLifeInMs(ShortHalfLife)), half_life_hours |-> ShortHalfLife,
      ret |-> Pending] : a \in AgeCounts, b \in AgeCounts}
    \cup
    {[fn |-> "_time_decay_weight", hours_ago |-> a, later |-> Hours(HalfLifeMs),
      half_life_hours |-> h, ret |-> Pending] :
        a \in {None, Hours(0), Hours(HalfLifeMs)}, h \in HalfLives \ {ShortHalfLife}}

(* Largest number of digits after the point in the count strings. *)
MaxFrac == 2

FractionChars == {"0", "1", "3", "5", "7"}

FracParts == UNION {[1..k -> FractionChars] : k \in 0..MaxFrac}

WholeParts == {<<>>, <<"0">>, <<"1">>, <<"5">>}

(* Decimal notations: optional sign, whole part, and optionally a point and a fraction. *)
Numerals ==
    {sg \o w : sg \in {<<>>, <<"-">>}, w \in WholeParts \ {<<>>}}
    \cup {sg \o w \o <<".">> \o f : sg \in {<<>>, <<"-">>}, w \in WholeParts, f \in FracParts}

Suffixes == {<<>>, <<"wan">>, <<"yi">>}

(* Strings with separators, blanks, words and residues around the numerals. *)
OtherStrings ==
    {<<"2", ",", "3", "8", "0">>, <<"1", ",", "2", ",", "3">>, <<" ", "7", " ">>,
     <<"+", "5">>, <<"1", "2", "wan">>, <<"5", " ", "wan">>, <<" ", "3", ".", "5", "yi", " ">>,
     <<"1", ",", "0", "0", "0", ".", "5", "wan">>,
     <<"a", "b", "c">>, <<"1", ".", "2", ".", "3">>, <<"-", "-", "1">>, <<"1", "wan", "5">>,
     <<"1", ".", "5", "wan", "wan">>, <<"1", "yi", "wan">>, <<" ">>, <<",">>, <<" ", ",", " ">>,
     <<"i", "n", "f">>, <<"-", "i", "n", "f">>, <<"I", "n", "f", "i", "n", "i", "t", "y">>,
     <<"n", "a", "n">>, <<"i", "n", "f", "wan">>, <<"n", "a", "n", "yi">>,
     <<"N", "o", "n", "e">>}

CountStrings == {n \o sf : n \in Numerals, sf \in Suffixes} \cup OtherStrings \cup {<<>>}

(* The raw values _parse_count is called with. *)
CountValues ==
    {None, PyInt(0), PyInt(7), PyInt(-3), PyFloat(7, 1), PyFloat(-7, 1), PyFloat(-1, 1),
     FInf, FNan, PyObj(<<"[", "1", "]">>, FALSE), PyObj(<<"5", "wan">>, FALSE)}
    \cup {S(str) : str \in CountStrings}

ParseCalls == {[fn |-> "_parse_count", x |-> v, ret |-> Pending] : v \in CountValues}

(* The raw counts of the notes compute_ces is called with. *)
CountSamples ==
    {None, PyInt(2), PyInt(-3), PyFloat(7, 1), FNan, S(<<"-", "3">>),
     S(<<"0", ".", "5", "7", "wan">>), S(<<"a", "b", "c">>), S(<<"i", "n", "f">>)}

CountNotes ==
    {Dict([note_id |-> S(<<"k">>), liked_count |-> a, comment_count |-> b, follow_count |-> c,
           share_count |-> PyInt(1)]) :
        a \in CountSamples, b \in CountSamples, c \in CountSamples \cup {Absent}}

ScoreCalls == {[fn |-> "compute_ces", note |-> n, ret |-> Pending] : n \in CountNotes}

HelperCalls ==
    FilterCalls \cup RecencyCalls \cup WeightCalls \cup EpochCalls \cup DecayCalls
    \cup ParseCalls \cup ScoreCalls

(* No pipeline run: one call of a helper function, not yet made. *)
HelperInit ==
    /\ call \in HelperCalls
    /\ heap = <<>>
    /\ orig = [heap |-> <<>>, notes |-> <<>>]
    /\ origin = <<>>
    /\ clock = Now0
    /\ ticks = 0
    /\ notes = <<>>
    /\ cfg = <<>>
    /\ pc = <<>>
    /\ idx = <<>>
    /\ filtered = <<>>
    /\ enriched = <<>>
    /\ kept = <<>>
    /\ result = <<>>
    /\ checked = <<>>
    /\ scored = <<>>
    /\ yields = <<>>
    /\ dify = NoPosts
    /\ task = NoTask

NotCalled(fn) == call.fn = fn /\ call.ret = Pending

Called(fn) == call.fn = fn /\ call.ret # Pending

Returns(value) ==
    /\ call' = [call EXCEPT !.ret = value]
    /\ UNCHANGED <<heap, clock, notes, cfg, pc, idx, filtered, enriched, kept, result,
                   orig, origin, checked, scored, yields, ticks, dify, task>>

PassesBasicFilters ==
    /\ NotCalled("_passes_basic_filters")
    /\ Returns(_passes_basic_filters(call.note, call.cfg, call.now))

(* apply_time_weight on the dict call.note, the only object of the heap: the  *)
(* heap after the call holds that object, and the call returns the reference *)
(* it was given.                                                             *)
ApplyTimeWeight ==
    /\ NotCalled("apply_time_weight")
    /\ heap' = apply_time_weight(<<call.note>>, 1, call.half_life_hours, call.now)
    /\ call' = [call EXCEPT !.ret = heap'[1]]
    /\ UNCHANGED <<clock, notes, cfg, pc, idx, filtered, enriched, kept, result,
                   orig, origin, checked, scored, yields, ticks, dify, task>>

EpochMsToHoursAgo ==
    /\ NotCalled("_epoch_ms_to_hours_ago")
    /\ Returns(_epoch_ms_to_hours_ago(call.ms_val, call.now))

TimeDecayWeight ==
    /\ NotCalled("_time_decay_weight")
    /\ Returns([at |-> _time_decay_weight(call.hours_ago, call.half_life_hours),
                later |-> _time_decay_weight(call.later, call.half_life_hours)])

ParseCount ==
    /\ NotCalled("_parse_count")
    /\ Returns(_parse_count(call.x))

ComputeCes ==
    /\ NotCalled("compute_ces")
    /\ Returns(ScoreOf(compute_ces(<<call.note>>, 1)))

HelperNext ==
    \/ PassesBasicFilters
    \/ ApplyTimeWeight
    \/ EpochMsToHoursAgo
    \/ TimeDecayWeight
    \/ ParseCount
    \/ ComputeCes

HelperSpec == HelperInit /\ [][HelperNext]_vars

(* The text the keyword filters search: the string forms of title, desc and *)
(* tag_list, an absent one being empty, with one space between them.         *)
TextOf(note) ==
    StrOf(Get(note, "title", EmptyStr)) \o <<" ">> \o StrOf(Get(note, "desc", EmptyStr))
    \o <<" ">> \o StrOf(Get(note, "tag_list", EmptyStr))

(* One of the keywords is, cases ignored, a substring of the text of the note. *)
Mentions(note, keywords) ==
    \E i \in 1..Len(keywords.v) : IsSubstring(StrLower(keywords.v[i]), StrLower(TextOf(note)))

WithoutText(note) ==
    [note EXCEPT !["title"] = Absent, !["desc"] = Absent, !["tag_list"] = Absent]

Survives == call.ret = PyBool(TRUE)

Dropped == call.ret = PyBool(FALSE)

ValidStamp(v) == v.t \notin {"absent", "none"} /\ ~IsExc(IntOf(v)) /\ IntOf(v).v > 0

(* No timestamp field of the note is valid: its age is undeterminable. *)
Undetermined(note) == \A i \in 1..Len(TimeKeys) : ~ValidStamp(note[TimeKeys[i]])

(* The first of the three fields, in the order of TimeKeys, that is valid. *)
FirstStamp(note) ==
    note[TimeKeys[CHOOSE i \in 1..Len(TimeKeys) :
                      /\ ValidStamp(note[TimeKeys[i]])
                      /\ \A j \in 1..(i - 1) : ~ValidStamp(note[TimeKeys[j]])]]

(* The age in milliseconds of a note that has one: max(0, now - value). *)
AgeMs(note, now) == Max(0, now - IntOf(FirstStamp(note)).v)

RecencyLimitMs(c) == c.recency_days.v * HoursPerDay * MsPerHour

TooOld(note, c, now) == Undetermined(note) \/ AgeMs(note, now) > RecencyLimitMs(c)

NoTextOrType(c) ==
    ~TypeOn(c) /\ ~KeywordsOn(c.required_keywords) /\ ~KeywordsOn(c.exclude_keywords)

One == PyFloat(1, 0)

WeightOfFirstStamp(note, half_life_hours, now) ==
    IF Undetermined(note) THEN One
    ELSE _time_decay_weight(Hours(AgeMs(note, now)), half_life_hours)

(* C13: the age is that of the first of last_update_time, time and           *)
(* last_modify_ts that is valid, fields that are absent, null, non-positive  *)
(* or unparsable being skipped, and there is none only when no field is      *)
(* valid: apply_time_weight weights by that age, the recency filter decides  *)
(* on that age, and _epoch_ms_to_hours_ago gives None exactly for the values *)
(* that are not valid.                                                       *)
C13_FirstValidStamp ==
    /\ Called("apply_time_weight") =>
           call.ret["time_weight"]
               = WeightOfFirstStamp(call.note, call.half_life_hours, call.now)
    /\ (Called("_passes_basic_filters") /\ RecencyOn(call.cfg) /\ NoTextOrType(call.cfg)) =>
           (Survives <=> /\ ~Undetermined(call.note)
                         /\ AgeMs(call.note, call.now) <= RecencyLimitMs(call.cfg))
    /\ Called("_epoch_ms_to_hours_ago") =>
           (call.ret = None <=> ~ValidStamp(call.ms_val))

(* A note whose first field is null, whose second is not valid and whose third is used. *)
C13_Witness ==
    /\ Called("apply_time_weight")
    /\ call.note["last_update_time"].t = "none"
    /\ call.note["time"].t = "float"
    /\ ValidStamp(call.note["last_modify_ts"])
    /\ call.ret["time_weight"] = PyFloat(1, 2)

(* The time_weight and weighted_ces of the dict heap[ref] of run r. *)
WeightConsistent(r, ref) ==
    /\ heap[ref]["weighted_ces"] = FloatMul(heap[ref]["ces"], heap[ref]["time_weight"])
    /\ (\/ ~cfg[r].enable_time_decay
        \/ cfg[r].half_life_hours.m <= 0
        \/ Undetermined(heap[ref]))
           => /\ heap[ref]["time_weight"] = One
              /\ heap[ref]["weighted_ces"] = heap[ref]["ces"]

(* C14: every enriched item, and so every returned item, has weighted_ces =  *)
(* ces * time_weight, and a time_weight of exactly 1.0 when enable_time_decay *)
(* is false, whatever its timestamps, when none of its timestamps is valid   *)
(* and when half_life_hours <= 0.                                            *)
C14_WeightedCes ==
    \A r \in Runs :
        /\ \A i \in 1..Len(enriched[r]) : WeightConsistent(r, enriched[r][i])
        /\ Returned(r) => \A i \in 1..Len(Out(r)) : WeightConsistent(r, Out(r)[i])

(* A returned item with a valid timestamp in the past and no decay. *)
C14_Witness ==
    \E r \in Runs :
        /\ Returned(r) /\ ~cfg[r].enable_time_decay
        /\ \E i \in 1..Len(Out(r)) :
               /\ ~Undetermined(heap[Out(r)[i]])
               /\ AgeMs(heap[Out(r)[i]], clock) > 0
               /\ heap[Out(r)[i]]["time_weight"] = One

(* A call of _time_decay_weight with an age and a positive half-life. *)
Decays ==
    /\ Called("_time_decay_weight")
    /\ call.hours_ago.t = "hours"
    /\ call.half_life_hours.m > 0

(* The age of the call in half-lives, a whole number in the calls made. *)
HalfLivesOld(hours_ago) == hours_ago.ms \div HalfLifeInMs(call.half_life_hours)

Zero == PyFloat(0, 0)

C16_AgeNeverNegative ==
    /\ Called("_epoch_ms_to_hours_ago") =>
           /\ call.ret = None \/ (call.ret.t = "hours" /\ call.ret.ms >= 0)
           /\ ValidStamp(call.ms_val) =>
                  /\ call.ret = Hours(Max(0, call.now - IntOf(call.ms_val).v))
                  /\ IntOf(call.ms_val).v > call.now =>
                         /\ call.ret = Hours(0)
                         /\ \A h \in HalfLives : _time_decay_weight(call.ret, h) = One
    /\ (Called("apply_time_weight") /\ ~Undetermined(call.note)
        /\ IntOf(FirstStamp(call.note)).v > call.now) =>
           call.ret["time_weight"] = One

(* A timestamp in the future, of age 0. *)
C16_Witness ==
    /\ Called("_epoch_ms_to_hours_ago")
    /\ ValidStamp(call.ms_val)
    /\ IntOf(call.ms_val).v > call.now
    /\ call.ret = Hours(0)

(* The value is a dict, not an exception. *)
IsDict(x) == DOMAIN x = Keys

(* The normalised count of the field key of the note, as compute_ces reads it. *)
CountOf(note, key) ==
    _parse_count(Get(note, key, IF key = "follow_count" THEN PyInt(0) ELSE None))

SignalsOf(note) ==
    Signals(CountOf(note, "liked_count").v, CountOf(note, "collected_count").v,
            CountOf(note, "comment_count").v, CountOf(note, "share_count").v,
            CountOf(note, "follow_count").v)

CesOf(sig) ==
    PyFloat(sig.like * 1 + sig.collect * 1 + sig.comment * 4 + sig.share * 4 + sig.follow * 8, 0)

(* C17: compute_ces fails for no item: it stores the five normalised counts  *)
(* in signals and sets ces = like*1 + collect*1 + comment*4 + share*4 +      *)
(* follow*8, follow being 0 when follow_count is absent.                     *)
C17_ScoreFormula ==
    Called("compute_ces") =>
        /\ IsDict(call.ret)
        /\ call.ret["signals"] = SignalsOf(call.note)
        /\ call.ret["ces"] = CesOf(call.ret["signals"])
        /\ call.note["follow_count"].t = "absent" => call.ret["signals"].follow = 0

(* C18: whatever the raw counts, negative numbers and strings of negative    *)
(* numbers included, the five components of signals of the enriched item are *)
(* non-negative integers and ces is non-negative.                            *)
C18_NonNegative ==
    (Called("compute_ces") /\ IsDict(call.ret)) =>
        /\ call.ret["signals"].like >= 0
        /\ call.ret["signals"].collect >= 0
        /\ call.ret["signals"].comment >= 0
        /\ call.ret["signals"].share >= 0
        /\ call.ret["signals"].follow >= 0
        /\ FloatGe(call.ret["ces"], Zero)

(* The string without its commas and surrounding whitespace, and without one *)
(* trailing magnitude suffix.                                                *)
Cleaned(str) == Remove(Strip(str), ",")

HasSuffix(s) == EndsWith(s, "wan") \/ EndsWith(s, "yi")

Residue(str) ==
    IF HasSuffix(Cleaned(str)) THEN SubSeq(Cleaned(str), 1, Len(Cleaned(str)) - 1)
    ELSE Cleaned(str)

SuffixMult(str) ==
    IF EndsWith(Cleaned(str), "wan") THEN WanMult
    ELSE IF EndsWith(Cleaned(str), "yi") THEN YiMult
    ELSE 1

Blank(x) == x.t = "str" /\ Strip(x.v) = <<>>

Unparsable(x) == x.t = "str" /\ IsExc(ParseFloat(Residue(x.v)))

(* C19: _parse_count returns an integer for every value and never raises;    *)
(* it returns 0 for None, for an empty or whitespace-only string and for a   *)
(* string that is no number once commas and a trailing suffix are removed.   *)
C19_Total ==
    Called("_parse_count") =>
        /\ call.ret.t = "int"
        /\ (call.x.t = "none" \/ Blank(call.x) \/ Unparsable(call.x)) => call.ret = PyInt(0)

(* The decimal q = num / den times mult, truncated toward zero, computed     *)
(* exactly: den divides the multipliers 10,000 and 100,000,000.              *)
ExactScaled(q, mult) ==
    IF mult % q.den = 0 THEN q.num * (mult \div q.den) ELSE TruncDiv(q.num * mult, q.den)

NumericPrefix(x) == x.t = "str" /\ ParseFloat(Residue(x.v)).t = "ratio"

(* C20: for a string with a numeric prefix _parse_count returns the prefix,  *)
(* times 10,000 with the suffix wan and times 100,000,000 with the suffix    *)
(* yi, truncated to an integer; a number is returned truncated toward zero.  *)
C20_ScaledPrefix ==
    Called("_parse_count") =>
        /\ NumericPrefix(call.x) =>
               call.ret = PyInt(ExactScaled(ParseFloat(Residue(call.x.v)), SuffixMult(call.x.v)))
        /\ call.x.t = "int" => call.ret = call.x
        /\ call.x.t = "float" => call.ret = PyInt(FloatToInt(call.x))

(* ---------------- cooperative yields ---------------- *)

(* Number of input items of invocation r. *)
InputLength(r) == IF notes[r].t = "list" THEN Len(notes[r].v) ELSE 0

InFilterLoop(r) == pc[r] \in {"filter", "filter_yield"}

InEnrichLoop(r) == pc[r] \in {"enrich", "enrich_yield"}

(* C21: with yield_every = Y > 0 the run has suspended floor(n / Y) times in *)
(* the basic-filter loop after n items processed there, survivors or not,    *)
(* so floor(N / Y) times over the N input items, and floor(m / Y) times in   *)
(* the enrichment loop after m of the M survivors, so floor(M / Y) times at  *)
(* the return; a run is suspended only right after a Y-th item of a loop.    *)
C21_YieldCounts ==
    \A r \in Runs :
        cfg[r].yield_every > 0 =>
            /\ InFilterLoop(r) =>
                   /\ yields[r].filter = idx[r] \div cfg[r].yield_every
                   /\ yields[r].enrich = 0
            /\ InEnrichLoop(r) =>
                   /\ yields[r].filter = InputLength(r) \div cfg[r].yield_every
                   /\ yields[r].enrich = idx[r] \div cfg[r].yield_every
            /\ AtYield(r) => idx[r] > 0 /\ idx[r] % cfg[r].yield_every = 0
            /\ Returned(r) =>
                   /\ yields[r].filter = InputLength(r) \div cfg[r].yield_every
                   /\ yields[r].enrich = Len(filtered[r]) \div cfg[r].yield_every

(* A returned run of three items, one of them dropped by the basic filter,   *)
(* with three suspensions in the first loop and two in the second.           *)
C21_Witness ==
    \E r \in Runs :
        /\ Returned(r) /\ cfg[r].yield_every = 1
        /\ InputLength(r) = 3 /\ Len(filtered[r]) = 2
        /\ yields[r] = [filter |-> 3, enrich |-> 2]

(* ---------------- apply_time_weight on its own ---------------- *)

(* C25: apply_time_weight, called on its own on an item that carries ces,    *)
(* returns the item's fields with time_weight and weighted_ces added, and    *)
(* the dict passed as argument is after the call as it was before.           *)
C25_ArgumentUnchanged ==
    Called("apply_time_weight") =>
        /\ heap[1] = call.note
        /\ \A k \in Keys \ {"time_weight", "weighted_ces"} : call.ret[k] = call.note[k]
        /\ call.ret["weighted_ces"] = FloatMul(call.note["ces"], call.ret["time_weight"])

(* ---------------- ces_service.py ---------------- *)

(* The config score_and_sort_by_ces builds, lines 17-23. *)
ServiceConfig == With(CESFilterConfig, [yield_every |-> 100])

(* The key (weighted_ces, ces) of a is not smaller than that of b. *)
PairGe(h, a, b) ==
    \/ FloatGt(Get(h[a], "weighted_ces", PyFloat(0, 0)), Get(h[b], "weighted_ces", PyFloat(0, 0)))
    \/ /\ Get(h[a], "weighted_ces", PyFloat(0, 0)) = Get(h[b], "weighted_ces", PyFloat(0, 0))
       /\ FloatGe(Get(h[a], "ces", PyFloat(0, 0)), Get(h[b], "ces", PyFloat(0, 0)))

RECURSIVE InsertByPair(_, _, _)
InsertByPair(h, sorted, x) ==
    IF sorted = <<>> THEN <<x>>
    ELSE IF PairGe(h, Head(sorted), x)
    THEN <<Head(sorted)>> \o InsertByPair(h, Tail(sorted), x)
    ELSE <<x>> \o sorted

(* The list as the pipeline returned it: no second sort. *)
SortedByWeightOnly(h, refs) == refs

(* enriched.sort(key=lambda x: (weighted_ces, ces), reverse=True), line 25. *)
RECURSIVE SortByPair(_, _)
SortByPair(h, refs) ==
    IF refs = <<>> THEN <<>>
    ELSE InsertByPair(h, SortByPair(h, SubSeq(refs, 1, Len(refs) - 1)), refs[Len(refs)])

(* _rank_and_label: item["rank"] = idx for idx, item in enumerate(enriched, 1). *)
RankAndLabel(h, refs) ==
    [ref \in DOMAIN h |->
        IF \E i \in 1..Len(refs) : refs[i] = ref
        THEN [h[ref] EXCEPT !["rank"] = PyInt(CHOOSE i \in 1..Len(refs) : refs[i] = ref)]
        ELSE h[ref]]

ServiceCall == [fn |-> "score_and_sort_by_ces", ret |-> Pending]

(* Lines 24-27 once score_and_filter_notes, invocation 1, has returned or raised. *)
ScoreAndSortByCes ==
    /\ call = ServiceCall
    /\ pc[1] \in {"done", "raised"}
    /\ IF Raised(1)
       THEN /\ call' = [call EXCEPT !.ret = result[1]]
            /\ UNCHANGED heap
       ELSE /\ heap' = RankAndLabel(heap, SortByPair(heap, result[1].v))
            /\ call' = [call EXCEPT !.ret = PyList(SortByPair(heap, result[1].v))]
    /\ UNCHANGED <<clock, notes, cfg, pc, idx, filtered, enriched, kept, result,
                   orig, origin, checked, scored, yields, ticks, dify, task>>

(* Largest number of notes of the calls of the service and of the runs beside them. *)
MaxServiceNotes == 3

ServicePool == {NoteOld, NoteFresh, NoteMid, NoteInf}

(* The values of yield_every: positive, zero and negative. *)
YieldValues == {1, 2, 0, -1, -2}

ListOf(n) == PyList([i \in 1..n |-> i])

(* A call of score_and_sort_by_ces, or a call of score_and_filter_notes with *)
(* one of the values of yield_every.                                         *)
ServiceInit ==
    \/ \E n \in 0..MaxServiceNotes : \E items \in [1..n -> ServicePool] :
           Started(items, ListOf(n), ServiceConfig) /\ call = ServiceCall /\ task = NoTask
    \/ Started(<<>>, None, ServiceConfig) /\ call = ServiceCall /\ task = NoTask
    \/ \E y \in YieldValues : \E n \in 0..MaxServiceNotes : \E items \in [1..n -> ServicePool] :
           Start(items, ListOf(n), With(CESFilterConfig, [yield_every |-> y]))

ServiceNext == Next \/ ScoreAndSortByCes

ServiceSpec == ServiceInit /\ [][ServiceNext]_vars

(* The event loop runs every invocation that can go on: a started one, and a *)
(* suspended one, which asyncio.sleep(0) makes ready again at once.          *)
Proceed ==
    \E r \in Runs :
        Call(r) \/ FilterStep(r) \/ FilterExit(r) \/ EnrichStep(r) \/ Finish(r) \/ Resume(r)

(* Largest number of notes of the runs whose end is checked. *)
MaxLiveNotes == 3

(* Notes with numbers as counts: a video, a note of another type, and one    *)
(* whose count makes compute_ces raise.                                      *)
LivePool ==
    {Dict([note_id |-> S(<<"p">>), type |-> S(Video), liked_count |-> PyInt(8),
           last_update_time |-> PyInt(Now0 - HalfLifeMs)]),
     Dict([note_id |-> S(<<"q">>), type |-> S(<<"n", "o", "r", "m", "a", "l">>),
           liked_count |-> PyInt(3)]),
     Dict([note_id |-> S(<<"r">>), type |-> S(Video), liked_count |-> FInf])}

(* A call of score_and_filter_notes with each value of yield_every and a     *)
(* type filter that keeps the videos.                                        *)
LiveInit ==
    \E y \in YieldValues : \E n \in 0..MaxLiveNotes : \E items \in [1..n -> LivePool] :
        Start(items, ListOf(n),
              With(CESFilterConfig, [yield_every |-> y, allowed_types |-> PyList(<<Video>>)]))

LiveSpec == LiveInit /\ [][Next]_vars /\ WF_vars(Proceed)

(* The call of score_and_sort_by_ces has returned a list. *)
Ranked24 == call.fn = "score_and_sort_by_ces" /\ call.ret # Pending /\ call.ret.t = "list"

Item(i) == heap[call.ret.v[i]]

(* C24: the list score_and_sort_by_ces returns is in descending order of     *)
(* (weighted_ces, ces), the higher ces first among equal weighted_ces, and   *)
(* the item at position i has rank = i, so the ranks are 1..n.               *)
C24_RankedByPair ==
    Ranked24 =>
        /\ \A i \in 1..Len(call.ret.v) : Item(i)["rank"] = PyInt(i)
        /\ \A i \in 1..Len(call.ret.v) : \A j \in 1..Len(call.ret.v) :
               i < j =>
                   /\ FloatGe(Item(i)["weighted_ces"], Item(j)["weighted_ces"])
                   /\ Item(i)["weighted_ces"] = Item(j)["weighted_ces"]
                          => FloatGe(Item(i)["ces"], Item(j)["ces"])
        /\ {Item(i)["rank"].v : i \in 1..Len(call.ret.v)} = 1..Len(call.ret.v)

(* Two items of equal weighted_ces that the second sort has exchanged. *)
C24_Witness ==
    /\ Ranked24
    /\ Len(call.ret.v) >= 2
    /\ call.ret.v # result[1].v
    /\ Item(1)["weighted_ces"] = Item(2)["weighted_ces"]
    /\ FloatGt(Item(1)["ces"], Item(2)["ces"])
    /\ Item(2)["rank"] = PyInt(2)

(* The input position of the item the enriched dict heap[ref] was made from. *)
InputPosition(ref) == origin[ref]

(* C30: two items of equal weighted_ces are in the output of the pipeline    *)
(* run in the order they have in the input, and two items equal in           *)
(* weighted_ces and in ces are in that order in the output of                *)
(* score_and_sort_by_ces.                                                    *)
C30_TiesKeepInputOrder ==
    /\ \A r \in Runs : Returned(r) =>
           \A i \in 1..Len(Out(r)) : \A j \in 1..Len(Out(r)) :
               (i < j /\ WeightedCes(Out(r)[i]) = WeightedCes(Out(r)[j]))
                   => InputPosition(Out(r)[i]) < InputPosition(Out(r)[j])
    /\ Ranked24 =>
           \A i \in 1..Len(call.ret.v) : \A j \in 1..Len(call.ret.v) :
               (/\ i < j
                /\ Item(i)["weighted_ces"] = Item(j)["weighted_ces"]
                /\ Item(i)["ces"] = Item(j)["ces"])
                   => InputPosition(call.ret.v[i]) < InputPosition(call.ret.v[j])

(* Three items of equal weighted_ces, two of them also equal in ces, the     *)
(* third of higher ces and between them in the input.                        *)
C30_Witness ==
    /\ Ranked24
    /\ Len(call.ret.v) = 3
    /\ \A i \in 1..3 : Item(i)["weighted_ces"] = Item(1)["weighted_ces"]
    /\ Item(2)["ces"] = Item(3)["ces"]
    /\ FloatGt(Item(1)["ces"], Item(2)["ces"])
    /\ InputPosition(call.ret.v[1]) = 2
    /\ WeightedCes(Out(1)[1]) = WeightedCes(Out(1)[2])

(* Invocation r is over: returned, raised, or abandoned at a yield point. *)
Ended(r) == pc[r] \in {"done", "raised", "cancelled"}

(* The first loop has called the filter on each input item once, in order,   *)
(* and the second loop has scored each survivor once, in order.              *)
VisitedOnce(r) ==
    /\ checked[r] = SubSeq(notes[r].v, 1, Len(checked[r]))
    /\ scored[r] = SubSeq(filtered[r], 1, Len(scored[r]))
    /\ Returned(r) =>
           /\ checked[r] = notes[r].v
           /\ filtered[r] # <<>> => scored[r] = filtered[r]

(* C29: the pipeline run ends for every input list and every value of        *)
(* yield_every, zero and negative ones included, provided it is resumed      *)
(* after each suspension, and each loop visits each of its items once.       *)
C29_Terminates ==
    /\ [](\A r \in Runs : notes[r].t = "list" => VisitedOnce(r))
    /\ <>(\A r \in Runs : Ended(r))

(* A run with a negative yield_every that has returned its three items. *)
C29_Witness ==
    \E r \in Runs :
        /\ Returned(r) /\ cfg[r].yield_every < 0
        /\ Len(checked[r]) = 3 /\ Len(scored[r]) = 3
        /\ yields[r].filter > 0

(* ---------------- one invocation from call to return ---------------- *)

(* What an invocation has given back: the exception it raised, or the dicts  *)
(* of the list it returned.                                                  *)
Outcome(r) ==
    IF pc[r] = "raised" THEN result[r]
    ELSE [i \in 1..Len(result[r].v) |-> heap[result[r].v[i]]]

Dicts(h, refs) == [i \in 1..Len(refs) |-> h[refs[i]]]

(* Lines 243-262 on the enriched dicts: thresholds, sort, truncation. *)
RankedAlone(h, refs, c, survivors) ==
    IF survivors = <<>> THEN <<>> ELSE Dicts(h, Truncate(SortDesc(h, survivors), c))

RECURSIVE EnrichAlone(_, _, _, _, _, _)

TimeWeightAlone(h, refs, c, at, done, e) ==
    EnrichAlone(IF c.enable_time_decay
                THEN apply_time_weight(e.heap, e.ref, c.half_life_hours, at[Len(done) + 1])
                ELSE NoTimeWeight(e.heap, e.ref),
                refs, c, at, Append(done, e.ref), 0)

ScoredAlone(h, refs, c, at, done, e) ==
    IF IsExc(e.exc) THEN e.exc ELSE TimeWeightAlone(h, refs, c, at, done, e)

(* Lines 229-241 without suspension: the survivors refs are scored in order, *)
(* the one at position j with time.time() reading at[j].                     *)
EnrichAlone(h, refs, c, at, done, unused) ==
    IF Len(done) = Len(refs) THEN RankedAlone(h, done, c, Threshold(h, done, c))
    ELSE ScoredAlone(h, refs, c, at, done, compute_ces(h, refs[Len(done) + 1]))

RECURSIVE FilterAlone(_, _, _, _, _, _)

FilteredAlone(h, refs, c, at, i, acc, passed) ==
    IF IsExc(passed) THEN passed
    ELSE FilterAlone(h, refs, c, at, i + 1, IF passed.v THEN Append(acc, refs[i]) ELSE acc)

(* Lines 217-227 without suspension, the filter of the item at position i    *)
(* reading at.filter[i]; then the second loop.                               *)
FilterAlone(h, refs, c, at, i, acc) ==
    IF i > Len(refs)
    THEN (IF acc = <<>> THEN <<>> ELSE EnrichAlone(h, acc, c, at.enrich, <<>>, 0))
    ELSE FilteredAlone(h, refs, c, at, i, acc,
                       _passes_basic_filters(h[refs[i]], c, at.filter[i]))

(* score_and_filter_notes(notes, cfg) as one uninterrupted call on the list  *)
(* refs of dicts of h, time.time() giving at.filter[i] in the first loop and *)
(* at.enrich[j] in the second.                                               *)
RunAlone(h, refs, c, at) ==
    IF refs = <<>> THEN <<>> ELSE FilterAlone(h, refs, c, at, 1, <<>>)

(* Every reading of the clock gives now. *)
AllAt(n, now) == [filter |-> [i \in 1..n |-> now], enrich |-> [i \in 1..n |-> now]]

GaveBack(r) == pc[r] \in {"done", "raised"}

(* C22: a run gives back what the run without any yield gives back on the    *)
(* same items with the same config but for yield_every, whatever time passes *)
(* at its yield points.                                                      *)
C22_YieldIndependent ==
    \A r \in Runs :
        (GaveBack(r) /\ notes[r].t = "list") =>
            Outcome(r) = RunAlone(orig.heap, notes[r].v, With(cfg[r], [yield_every |-> 0]),
                                  AllAt(Len(notes[r].v), Now0))

(* The same with no time passing at the yield points. *)
C22_SameAtFixedClock ==
    ticks = 0 => C22_YieldIndependent

(* ---------------- two invocations on one event loop ---------------- *)

MaxPairNotes == 2

PairPool == {NoteOld, NoteFresh, NoteInf}

PairConfigs ==
    {With(CESFilterConfig, [yield_every |-> 1]),
     With(CESFilterConfig, [yield_every |-> 1, enable_time_decay |-> FALSE]),
     With(CESFilterConfig, [yield_every |-> 0])}

Reversed(n) == [i \in 1..n |-> n + 1 - i]

(* Two invocations, each with its own list and its own config; the lists     *)
(* hold the same dicts, in the same or in the opposite order.                *)
PairInit ==
    \E n \in 1..MaxPairNotes : \E items \in [1..n -> PairPool] :
        \E c1 \in PairConfigs : \E c2 \in PairConfigs :
            \E second \in {[i \in 1..n |-> i], Reversed(n)} :
                /\ heap = items
                /\ notes = <<ListOf(n), PyList(second)>>
                /\ orig = [heap |-> items, notes |-> notes]
                /\ origin = [i \in 1..n |-> i]
                /\ clock = Now0
                /\ ticks = 0
                /\ cfg = <<c1, c2>>
                /\ pc = <<"call", "call">>
                /\ idx = <<0, 0>>
                /\ filtered = <<<<>>, <<>>>>
                /\ enriched = <<<<>>, <<>>>>
                /\ kept = <<<<>>, <<>>>>
                /\ result = <<Pending, Pending>>
                /\ checked = <<<<>>, <<>>>>
                /\ scored = <<<<>>, <<>>>>
                /\ yields = <<[filter |-> 0, enrich |-> 0], [filter |-> 0, enrich |-> 0]>>
                /\ call = NoCall
                /\ dify = NoPosts
                /\ task = NoTask

(* Invocation q is not running: it has not begun, is suspended in            *)
(* await asyncio.sleep(0), or is over.                                       *)
Suspended(q) == pc[q] \notin {"filter", "enrich"}

(* The event loop runs one task at a time, from one await to the next. The   *)
(* clock stands still while the two invocations run.                         *)
Turn(r) == \A q \in Runs \ {r} : Suspended(q)

PairNext ==
    \/ \E r \in Runs : Turn(r) /\ Call(r)
    \/ \E r \in Runs : Turn(r) /\ FilterStep(r)
    \/ \E r \in Runs : Turn(r) /\ FilterExit(r)
    \/ \E r \in Runs : Turn(r) /\ EnrichStep(r)
    \/ \E r \in Runs : Turn(r) /\ Finish(r)
    \/ \E r \in Runs : Turn(r) /\ Resume(r)

PairSpec == PairInit /\ [][PairNext]_vars

(* C23: interleaved with another invocation at the yield points, an          *)
(* invocation gives back what the uninterrupted call gives back on its own   *)
(* list and config at the same clock, the dicts it was given are as they     *)
(* were, and what it gave back stays as it is while the other runs.          *)
C23_RunsAlone ==
    /\ SubSeq(heap, 1, Len(orig.heap)) = orig.heap
    /\ \A r \in Runs :
           GaveBack(r) =>
               Outcome(r) = RunAlone(orig.heap, notes[r].v, cfg[r],
                                     AllAt(Len(notes[r].v), clock))

(* Two invocations with different configs on the same two dicts, each        *)
(* suspended after every item and resumed in turn with the other, both back  *)
(* with two items.                                                           *)
C23_Witness ==
    /\ Cardinality(Runs) = 2
    /\ Returned(1) /\ Returned(2)
    /\ cfg[1] # cfg[2]
    /\ Len(result[1].v) = 2 /\ Len(result[2].v) = 2
    /\ enriched[1][1] < enriched[2][1] /\ enriched[2][1] < enriched[1][2]
    /\ enriched[1][2] < enriched[2][2]

(* ---------------- dify_service._post_json_with_retry ---------------- *)

(* config.py line 32: the default of ANALYSIS_HTTP_RETRIES. *)
HTTP_RETRIES == 2

(* Largest value of MAX_CONCURRENCY and largest number of concurrent calls. *)
MaxPermits == 1

MaxCallers == 2

RetryValues == {-1, 0, 1, HTTP_RETRIES}

(* What a request can come back with: a JSON body, or an exception of        *)
(* client.post, raise_for_status or resp.json.                               *)
Bodies == {[answer |-> "a"], [answer |-> "b"]}

Failures == {"ConnectError", "HTTPStatusError", "JSONDecodeError"}

ErrorDict(e) == [error |-> e]

(* A call that has not run yet. *)
NewPost ==
    [pc |-> "new", attempt |-> 0, ret |-> Pending, posts |-> 0, sleeps |-> 0,
     failed |-> 0, last |-> Pending]

(* No pipeline run and no helper call. *)
Quiet ==
    /\ heap = <<>>
    /\ orig = [heap |-> <<>>, notes |-> <<>>]
    /\ origin = <<>>
    /\ clock = Now0
    /\ ticks = 0
    /\ notes = <<>>
    /\ cfg = <<>>
    /\ pc = <<>>
    /\ idx = <<>>
    /\ filtered = <<>>
    /\ enriched = <<>>
    /\ kept = <<>>
    /\ result = <<>>
    /\ checked = <<>>
    /\ scored = <<>>
    /\ yields = <<>>
    /\ call = NoCall

(* _sem = asyncio.Semaphore(MAX_CONCURRENCY) and n calls to come. *)
Posts(limit, retries, n) ==
    [sem |-> limit, MAX_CONCURRENCY |-> limit, HTTP_RETRIES |-> retries,
     calls |-> [k \in 1..n |-> NewPost]]

DifyInit ==
    /\ Quiet
    /\ task = NoTask
    /\ \E limit \in 1..MaxPermits : \E retries \in RetryValues : \E n \in 1..MaxCallers :
           dify = Posts(limit, retries, n)

Callers == DOMAIN dify.calls

Post(k) == dify.calls[k]

(* The loop of line 23 has another round: attempt is in range(HTTP_RETRIES + 1). *)
InRange(attempt, retries) == attempt < retries + 1

(* A permit held for good: the exit of async with _sem gives nothing back. *)
Kept(sem) == sem

(* The exit of async with _sem, line 25. *)
Released(sem) == sem + 1

(* The test of line 31 asking for one round more. *)
AfterLastAttempt(attempt, retries) == attempt > retries

(* Line 31: if attempt >= HTTP_RETRIES. *)
LastAttempt(attempt, retries) == attempt >= retries

(* The other variables of the model stay as they are. *)
OnlyDify ==
    UNCHANGED <<heap, clock, notes, cfg, pc, idx, filtered, enriched, kept, result,
                orig, origin, checked, scored, yields, ticks, call, task>>

(* The call begins: line 23, and line 34 when the range is empty. *)
Begin(k) ==
    /\ Post(k).pc = "new"
    /\ dify' = [dify EXCEPT !.calls[k] =
                   IF InRange(0, dify.HTTP_RETRIES)
                   THEN [@ EXCEPT !.pc = "try"]
                   ELSE [@ EXCEPT !.pc = "returned", !.ret = ErrorDict("unknown")]]
    /\ OnlyDify

(* Lines 25-27: a permit is taken as soon as one is free and the request sent. *)
Acquire(k) ==
    /\ Post(k).pc = "try"
    /\ dify.sem > 0
    /\ dify' = [dify EXCEPT !.sem = @ - 1,
                            !.calls[k] = [@ EXCEPT !.pc = "inflight", !.posts = @ + 1]]
    /\ OnlyDify

(* Lines 27-29: the response is fine; the permit goes back and the body is returned. *)
Succeed(k) ==
    /\ Post(k).pc = "inflight"
    /\ \E body \in Bodies :
           dify' = [dify EXCEPT !.sem = Released(@),
                                !.calls[k] = [@ EXCEPT !.pc = "returned", !.ret = body,
                                                       !.last = [ok |-> TRUE, body |-> body]]]
    /\ OnlyDify

(* Lines 30-33: the request raised e; the permit goes back, then either the  *)
(* error dict is returned or the call sleeps before the next round.          *)
Fail(k) ==
    /\ Post(k).pc = "inflight"
    /\ \E e \in Failures :
           dify' = [dify EXCEPT
                      !.sem = Released(@),
                      !.calls[k] =
                          IF LastAttempt(Post(k).attempt, dify.HTTP_RETRIES)
                          THEN [@ EXCEPT !.pc = "returned", !.ret = ErrorDict(e),
                                         !.failed = @ + 1,
                                         !.last = [ok |-> FALSE, error |-> e]]
                          ELSE [@ EXCEPT !.pc = "sleep", !.sleeps = @ + 1,
                                         !.failed = @ + 1,
                                         !.last = [ok |-> FALSE, error |-> e]]]
    /\ OnlyDify

(* The sleep of line 33 is over: the next round, or line 34 after the last. *)
Wake(k) ==
    /\ Post(k).pc = "sleep"
    /\ dify' = [dify EXCEPT !.calls[k] =
                   IF InRange(Post(k).attempt + 1, dify.HTTP_RETRIES)
                   THEN [@ EXCEPT !.pc = "try", !.attempt = @ + 1]
                   ELSE [@ EXCEPT !.pc = "returned", !.attempt = @ + 1,
                                  !.ret = ErrorDict("unknown")]]
    /\ OnlyDify

PostStep(k) == Begin(k) \/ Acquire(k) \/ Succeed(k) \/ Fail(k) \/ Wake(k)

DifyNext ==
    \/ \E k \in Callers : Begin(k)
    \/ \E k \in Callers : Acquire(k)
    \/ \E k \in Callers : Succeed(k)
    \/ \E k \in Callers : Fail(k)
    \/ \E k \in Callers : Wake(k)

DifySpec == DifyInit /\ [][DifyNext]_vars

(* The event loop runs every task that is ready, every request ends (with a  *)
(* response or with an exception, HTTP_TIMEOUT at the latest), every sleep   *)
(* ends.                                                                     *)
DifyLive == DifySpec /\ \A k \in 1..MaxCallers : WF_vars(k \in Callers /\ PostStep(k))

PostReturned(k) == Post(k).pc = "returned"

(* C27: a call makes at most HTTP_RETRIES + 1 requests, returns the body of  *)
(* the first request that succeeds, returns an error dict once the last one  *)
(* has failed, and has slept once after each failed request but the last.    *)
C27_Retry ==
    \A k \in Callers :
        /\ Post(k).posts <= Post(k).attempt + 1
        /\ Post(k).posts = 0 \/ Post(k).attempt <= dify.HTTP_RETRIES
        /\ Post(k).pc \in {"new", "try", "inflight", "sleep", "returned"}
        /\ PostReturned(k) =>
               IF Post(k).posts = 0
               THEN Post(k).ret = ErrorDict("unknown") /\ dify.HTTP_RETRIES < 0
               ELSE IF Post(k).last.ok
               THEN /\ Post(k).ret = Post(k).last.body
                    /\ Post(k).failed = Post(k).posts - 1
                    /\ Post(k).sleeps = Post(k).failed
               ELSE /\ Post(k).ret = ErrorDict(Post(k).last.error)
                    /\ Post(k).posts = dify.HTTP_RETRIES + 1
                    /\ Post(k).failed = Post(k).posts
                    /\ Post(k).sleeps = Post(k).failed - 1

(* A call that returns the error of its third failed request after two sleeps. *)
C27_Witness ==
    \E k \in Callers :
        /\ PostReturned(k) /\ dify.HTTP_RETRIES = HTTP_RETRIES
        /\ Post(k).posts = HTTP_RETRIES + 1 /\ Post(k).sleeps = HTTP_RETRIES
        /\ Post(k).ret = ErrorDict("HTTPStatusError")

InFlight(k) == k \in Callers /\ Post(k).pc = "inflight"

AwaitsPermit(k) == k \in Callers /\ Post(k).pc = "try"

NoPermitLeaks ==
    /\ dify.sem >= 0
    /\ dify.sem + Cardinality({k \in Callers : InFlight(k)}) = dify.MAX_CONCURRENCY

(* C28: at most MAX_CONCURRENCY requests are in flight, the permits out are  *)
(* those of the requests in flight, and a call that waits for a permit gets  *)
(* one.                                                                      *)
C28_Permits ==
    /\ []NoPermitLeaks
    /\ \A k \in 1..MaxCallers : AwaitsPermit(k) ~> InFlight(k)

(* A second call waits, after a failed request and its sleep, while the only *)
(* permit is out.                                                            *)
C28_Witness ==
    \E k \in Callers : \E j \in Callers :
        /\ InFlight(k) /\ AwaitsPermit(j) /\ dify.sem = 0
        /\ Post(j).failed > 0

(* ---------------- analysis_route.handle_task ---------------- *)

MaxTaskNotes == 2

TaskPool == {NoteOld, NoteFresh, NoteInf}

TaskIds == {<<>>, <<"t">>}

(* The values of content_score.score and consistency_checker.result in the   *)
(* answer of the scoring workflow.                                           *)
ScoreValues == {None, PyFloat(85, 0), PyFloat(80, 0), PyStr(<<"a">>), PyStr(<<"9", "0">>)}

ResultValues == {PyBool(TRUE), PyBool(FALSE), None, PyStr(<<"f", "a", "l", "s", "e">>)}

(* What _post_json_with_retry gives call_dify_score: a body with outputs, an *)
(* error dict after the last failed attempt, or the body {"data": null}.     *)
ScoreReplies ==
    [kind : {"outputs"}, score : ScoreValues, result : ResultValues]
        \cup {[kind |-> "error", score |-> None, result |-> None],
              [kind |-> "null data", score |-> None, result |-> None]}

AnalysisReplies == {"outputs", "null data"}

(* float(s) > 80.0 for the value ParseFloat gives; False when float() raises. *)
ParsedAbove80(f) ==
    CASE f.t = "exc" -> FALSE
      [] f.t = "fnan" -> FALSE
      [] f.t = "finf" -> TRUE
      [] OTHER -> f.num > 80 * f.den

(* Line 81: float(score) > 80.0, an exception of float() giving False (line 82). *)
ScoreAbove80(score) ==
    CASE score.t = "float" -> FloatGt(score, PyFloat(80, 0))
      [] score.t = "int" -> score.v > 80
      [] score.t = "str" -> ParsedAbove80(ParseFloat(score.v))
      [] OTHER -> FALSE

(* bool(result_flag) is True *)
BoolIsTrue(flag) == IF flag.t = "bool" THEN flag.v ELSE Truthy(flag)

(* The filter that asks for the JSON value true. *)
KeepIfTrue(reply) ==
    /\ reply.kind = "outputs"
    /\ ScoreAbove80(reply.score)
    /\ reply.result = PyBool(TRUE)

(* Lines 74-84: keep of _score_one. The error dict of a failed call has no   *)
(* outputs, so score and result are None.                                    *)
Keep(reply) ==
    /\ ScoreAbove80(reply.score)
    /\ BoolIsTrue(reply.result)

NewTask(id) ==
    [at |-> "new", task_id |-> id, ranked |-> <<>>, replies |-> <<>>, keep |-> <<>>,
     analysed |-> <<>>, callbacks |-> 0, data |-> Pending, exc |-> None]

(* A request with a task_id and a list of notes; score_and_sort_by_ces is    *)
(* invocation 1 of the pipeline with the config of the service.              *)
TaskInit ==
    \E id \in TaskIds : \E n \in 0..MaxTaskNotes : \E items \in [1..n -> TaskPool] :
        /\ Started(items, ListOf(n), ServiceConfig)
        /\ call = ServiceCall
        /\ task = NewTask(id)

OnlyTask ==
    UNCHANGED <<heap, clock, notes, cfg, pc, idx, filtered, enriched, kept, result,
                orig, origin, checked, scored, yields, ticks, call, dify>>

TaskRaises(e) == task' = [task EXCEPT !.at = "raised", !.exc = Exc(e)]

(* Lines 58-61. *)
Validate ==
    /\ task.at = "new"
    /\ IF task.task_id = <<>> \/ notes[1].v = <<>>
       THEN TaskRaises("HTTPException")
       ELSE task' = [task EXCEPT !.at = "ces"]
    /\ OnlyTask

(* Line 65: score_and_sort_by_ces is awaited. *)
AwaitCes ==
    /\ task.at = "ces"
    /\ \/ Call(1) \/ FilterStep(1) \/ FilterExit(1) \/ EnrichStep(1) \/ Finish(1)
       \/ ScoreAndSortByCes

(* Line 65 returns or raises; line 95 starts one _score_one per ranked note. *)
Gather ==
    /\ task.at = "ces"
    /\ call.ret # Pending
    /\ IF IsExc(call.ret)
       THEN task' = [task EXCEPT !.at = "raised", !.exc = call.ret]
       ELSE task' = [task EXCEPT
                        !.at = "scoring",
                        !.ranked = call.ret.v,
                        !.replies = [i \in 1..Len(call.ret.v) |-> Pending],
                        !.keep = [i \in 1..Len(call.ret.v) |-> FALSE],
                        !.analysed = [i \in 1..Len(call.ret.v) |-> FALSE]]
    /\ OnlyTask

(* Lines 70-92 for the note at position i: call_dify_score raises            *)
(* AttributeError on data = None (dify_service.py:74), which gather passes on *)
(* to handle_task; otherwise keep is computed.                               *)
ScoreOne(i) ==
    /\ task.at = "scoring"
    /\ task.replies[i] = Pending
    /\ \E reply \in ScoreReplies :
           IF reply.kind = "null data"
           THEN TaskRaises("AttributeError")
           ELSE task' = [task EXCEPT !.replies[i] = reply, !.keep[i] = Keep(reply)]
    /\ OnlyTask

AllScored == \A i \in DOMAIN task.replies : task.replies[i] # Pending

(* Lines 98 and 140-142: filtered_items, and the analyses when there are any. *)
FilterItems ==
    /\ task.at = "scoring"
    /\ AllScored
    /\ task' = [task EXCEPT !.at = IF \E i \in DOMAIN task.keep : task.keep[i]
                                   THEN "analysis" ELSE "callback"]
    /\ OnlyTask

(* Lines 101-138 for the kept note at position i. *)
AnalyzeOne(i) ==
    /\ task.at = "analysis"
    /\ task.keep[i] /\ ~task.analysed[i]
    /\ \E reply \in AnalysisReplies :
           IF reply = "null data"
           THEN TaskRaises("AttributeError")
           ELSE task' = [task EXCEPT !.analysed[i] = TRUE]
    /\ OnlyTask

AllAnalysed == \A i \in DOMAIN task.keep : task.keep[i] => task.analysed[i]

RECURSIVE AnalysedNotes(_, _)
AnalysedNotes(t, i) ==
    IF i > Len(t.ranked) THEN <<>>
    ELSE (IF t.analysed[i] THEN <<t.ranked[i]>> ELSE <<>>) \o AnalysedNotes(t, i + 1)

(* Lines 146-155: the callback with analyzed_data, whatever its answer. *)
Callback ==
    /\ \/ task.at = "callback"
       \/ task.at = "analysis" /\ AllAnalysed
    /\ task' = [task EXCEPT !.at = "done", !.callbacks = @ + 1,
                            !.data = AnalysedNotes(task, 1)]
    /\ OnlyTask

TaskNext ==
    \/ Validate
    \/ AwaitCes
    \/ Gather
    \/ \E i \in DOMAIN task.replies : ScoreOne(i)
    \/ FilterItems
    \/ \E i \in DOMAIN task.keep : AnalyzeOne(i)
    \/ Callback

TaskSpec == TaskInit /\ [][TaskNext]_vars

TaskOver == task.at \in {"done", "raised"}

(* The request has a task_id and at least one note. *)
Accepted == task.task_id # <<>> /\ notes[1].v # <<>>

(* C26: a note is analysed only when its scoring call gave a score above 80  *)
(* and the result true; the callback is sent once for each task, after all   *)
(* scoring and analysis calls, with exactly the analysed notes.              *)
C26_ScoreGate ==
    /\ \A i \in DOMAIN task.analysed :
           task.analysed[i] => KeepIfTrue(task.replies[i])
    /\ task.callbacks <= 1
    /\ task.callbacks = 1 =>
           /\ AllScored /\ AllAnalysed
           /\ task.data = AnalysedNotes(task, 1)
    /\ (Accepted /\ TaskOver) => task.callbacks = 1

(* The gate alone, and the callback alone. *)
C26_OnlyTrueResults ==
    \A i \in DOMAIN task.analysed : task.analysed[i] => KeepIfTrue(task.replies[i])

C26_CalledBackUnlessCesRaised ==
    (Accepted /\ TaskOver /\ ~IsExc(call.ret)) => task.callbacks = 1

C26_CallbackAfterAll ==
    /\ task.callbacks <= 1
    /\ task.callbacks = 1 =>
           /\ AllScored /\ AllAnalysed
           /\ task.data = AnalysedNotes(task, 1)
    /\ \A i \in DOMAIN task.analysed :
           task.analysed[i] => task.keep[i] /\ ScoreAbove80(task.replies[i].score)

====
